---- MODULE Spec2Model ----
(***************************************************************************)
(* Ground-station firmware (pico/src): six FreeRTOS tasks sharing two      *)
(* bounded FIFO queues (g_mqtt_queue, g_log_queue), two depth-1 overwrite  *)
(* queues (g_gs_location_q, g_rocket_location_q), one event bit            *)
(* (EVT_WIFI_CONNECTED) and the flag s_mqtt_connected written by the lwIP  *)
(* connection callback.  Every task is a process with a program counter;   *)
(* one action is one run of a task between two scheduling points.          *)
(***************************************************************************)
EXTENDS Integers, Sequences, FiniteSets, TLC

\* ---- program constants --------------------------------------------------
LOG_QUEUE_DEPTH == 64
MQTT_QUEUE_DEPTH == 8
GPS_PUB_MS == 1000
PULSE_MIN == 1000
PULSE_CENTER == 1500
PULSE_MAX == 2000
\* the block time of gps_task's xQueueSend on g_mqtt_queue, in milliseconds
GPS_SEND_WAIT_MS == 50
\* the block time of lora_task's xQueueSend on g_mqtt_queue
LORA_SEND_WAIT_MS == 0
\* sizeof of MqttMessage's topic and payload and of gps_task's json
TOPIC_SIZE == 64
PAYLOAD_SIZE == 384
JSON_SIZE == 128
\* sizeof( nmea_buf ) in gps_task
NMEA_BUF_SIZE == 128

\* ---- bounds of the model ------------------------------------------------
\* messages accepted into g_mqtt_queue over one run
MaxMsgs == 2
\* log_print calls made by the producer of LogSpec
MaxLogCalls == 66
\* ticks per second of the model's tick counter (configTICK_RATE_HZ)
TickRateHz == 1
\* the tick counter (TickType_t) wraps at TickWrap
TickWrap == 2
\* angle_to_counts is called with angles up to AngleMargin degrees outside
\* the range of its axis
AngleMargin == 20

\* mutant: every interval converts to zero ticks
pdMS_TO_TICKS_Zero(ms) == 0

pdMS_TO_TICKS(ms) == (ms * TickRateHz) \div 1000

\* ---- values -------------------------------------------------------------
NoMsg == [topic |-> "none"]
NoPkt == [read_ok |-> FALSE, len |-> 0]
NoLoc == [lat |-> 0, lon |-> 0, alt_m |-> 0]

\* decoded SIGMA frames (SigmaLoRaData): with and without the coordinates-valid
\* flag
FrameA == [boot_ms |-> 1, state |-> "ARMED", satellites |-> 7,
           flags |-> {"GPS_VALID"}, lat |-> 34, lon |-> -118,
           alt_gps_m |-> 1500, alt_baro_m |-> 1490, speed_ms |-> 120,
           q |-> <<1, 0, 0, 0>>]
FrameB == [boot_ms |-> 2, state |-> "COAST_ASCENT", satellites |-> 0,
           flags |-> {}, lat |-> 35, lon |-> -117,
           alt_gps_m |-> 20, alt_baro_m |-> 1600, speed_ms |-> 80,
           q |-> <<0, 1, 0, 0>>]

FrameC == [boot_ms |-> 3, state |-> "DESCENT_MAIN", satellites |-> 9,
           flags |-> {"GPS_VALID", "ARMED"}, lat |-> 36, lon |-> -116,
           alt_gps_m |-> 900, alt_baro_m |-> 880, speed_ms |-> 6,
           q |-> <<0, 0, 1, 0>>]

\* a double that is not a number (the model's numbers are integers; this one
\* stands outside every range the program works with)
NaN == 999999

\* a packet whose frame passes the framing and CRC check and has the
\* coordinates-valid flag, and whose latitude field holds the bits of a NaN
PacketN ==
    [read_ok |-> TRUE, frame_ok |-> TRUE, len |-> 60, rssi |-> -75, snr |-> 8,
     d |-> [boot_ms |-> 4, state |-> "ARMED", satellites |-> 7,
            flags |-> {"GPS_VALID"}, lat |-> NaN, lon |-> -118,
            alt_gps_m |-> 1500, alt_baro_m |-> 1490, speed_ms |-> 120,
            q |-> <<1, 0, 0, 0>>]]

\* what readPacket and deserialize can deliver for one available packet; d of
\* a frame that fails the check is whatever deserialize left in it
Packets ==
    { [read_ok |-> FALSE, len |-> 0],
      [read_ok |-> TRUE, frame_ok |-> FALSE, len |-> 12, rssi |-> -90, snr |-> 5,
       d |-> FrameC],
      [read_ok |-> TRUE, frame_ok |-> TRUE, len |-> 60, rssi |-> -70, snr |-> 9,
       d |-> FrameA],
      [read_ok |-> TRUE, frame_ok |-> TRUE, len |-> 60, rssi |-> -80, snr |-> 7,
       d |-> FrameB],
      [read_ok |-> TRUE, frame_ok |-> TRUE, len |-> 60, rssi |-> -85, snr |-> 6,
       d |-> FrameC] }

\* positions the GPS parser can report (gps::Coordinate)
Coordinates ==
    { [latitude |-> 37, longitude |-> -80, altitude |-> 600, satellites |-> 8],
      [latitude |-> 38, longitude |-> -81, altitude |-> 610, satellites |-> 5] }

ConnStatus == {"ACCEPTED", "REFUSED", "DISCONNECTED", "TIMEOUT"}

\* the six tasks created by main() and the two cores of the RP2350
Tasks == {"wifi", "mqtt", "lora", "gps", "servo", "usb"}
Cores == {0, 1}

VARIABLES
    net_events,           \* EVT_WIFI_CONNECTED bit of g_net_events
    wifi_pc,
    lwip_owner,           \* the task inside cyw43_arch_lwip_begin / _end, or "none"
    s_mqtt,               \* the lwIP client: "null", "closed", "connecting", "connected"
    s_mqtt_connected,
    mqtt_pc,
    msg,                  \* mqtt_task's msg between xQueueReceive and mqtt_publish
    g_mqtt_queue,
    g_log_queue,
    g_gs_location_q,
    g_rocket_location_q,
    lora_pc,
    pkt,                  \* the packet of the current receive cycle
    parser,               \* gps::GPSParser: hasFix() and getCoordinate()
    had_fix,
    last_pub,
    gps_pc,
    gps_json,             \* the message built by gps_task, waiting in xQueueSend
    uart_rx,              \* the byte uart_getc returned to gps_task and that is
                          \* being handled, -1 outside the handling of a byte
    nmea_len,
    tick,                 \* xTaskGetTickCount()
    servo_pc,
    gs, rkt, have_gs, have_rkt,
    pwm,                  \* levels of the two PWM channels <<azimuth, zenith>>
    pwm_calls,            \* the pwm_set_gpio_level calls of the servo task's last
                          \* completed tick, in order: channel and argument
    usb_pc,
    s_log_enabled,
    \* history variables
    accepted,             \* messages accepted into g_mqtt_queue, in order
    published,            \* messages handed to mqtt_publish, in order
    seen_connected,       \* mqtt_task has read s_mqtt_connected as true
    deq_since_clear,      \* receives that returned a message while the flag was
                          \* clear, since the flag was last set (at most 2 counted)
    pub_since_clear,      \* mqtt_publish calls made while the flag was clear,
                          \* since the flag was last set (at most 2 counted)
    waiting,              \* indices in accepted of messages enqueued while disconnected
    wrote_gs,             \* the last value gps_task overwrote its slot with, <<>> if none
    wrote_rkt,            \* the last value lora_task overwrote its slot with, <<>> if none
    log_calls,            \* log_print calls of the LogSpec producer
    log_dropped,          \* numbers of the records those calls dropped
    log_taken,            \* usb_task has dequeued a record
    log_out,              \* the record usb_task dequeued last, and whether it
                          \* passed it to printf
    since_pub,            \* ticks gone by since gps_task last stamped last_pub (or
                          \* since boot), counted up to the publish interval
    call,                 \* one call of a helper: its arguments and, once it has
                          \* returned, its result
    dropped,              \* the xQueueSend calls on g_mqtt_queue that returned
                          \* errQUEUE_FULL: topic and the wait they were made with
    rx,                   \* the last completed iteration of lora_task's loop: what
                          \* it found, and whether it called startReceive
    core_of               \* the core each task was last scheduled on

netVars == <<net_events, wifi_pc, lwip_owner>>
mqttVars == <<s_mqtt, s_mqtt_connected, mqtt_pc, msg>>
loraVars == <<lora_pc, pkt>>
gpsVars == <<parser, had_fix, last_pub, gps_pc, gps_json, uart_rx, nmea_len>>
servoVars == <<servo_pc, gs, rkt, have_gs, have_rkt, pwm, pwm_calls>>
usbVars == <<usb_pc, s_log_enabled>>
locVars == <<g_gs_location_q, g_rocket_location_q>>
pubHist == <<published, seen_connected, deq_since_clear, pub_since_clear>>
qHist == <<accepted, waiting>>
locHist == <<wrote_gs, wrote_rkt>>
gpsHist == <<since_pub>>
logHist == <<log_calls, log_dropped, log_taken, log_out>>

vars == <<net_events, wifi_pc, lwip_owner, s_mqtt, s_mqtt_connected, mqtt_pc, msg,
          g_mqtt_queue, g_log_queue, g_gs_location_q, g_rocket_location_q,
          lora_pc, pkt, parser, had_fix, last_pub, gps_pc, gps_json, uart_rx,
          nmea_len, tick,
          servo_pc, gs, rkt, have_gs, have_rkt, pwm, pwm_calls, usb_pc,
          s_log_enabled,
          accepted, published, seen_connected, deq_since_clear,
          pub_since_clear, waiting, wrote_gs, wrote_rkt, log_calls,
          log_dropped, log_taken, log_out, since_pub, call, dropped, rx, core_of>>

\* ---- FreeRTOS queue primitives -------------------------------------------
\* mutant: the item is sent to the front of the queue
xQueueSend_ToFront(q, item, depth) ==
    IF Len(q) < depth THEN <<item>> \o q ELSE q

\* mutant: on a full queue the oldest item makes room for the new one
xQueueSend_EvictOldest(q, item, depth) ==
    IF Len(q) < depth THEN Append(q, item) ELSE Append(Tail(q), item)

\* xQueueSend with a zero timeout or at the end of its timeout: the item is
\* appended when there is room and discarded otherwise
xQueueSend(q, item, depth) ==
    IF Len(q) < depth THEN Append(q, item) ELSE q

\* mutant: the overwrite behaves like a plain send and keeps a value that is
\* already in the slot
xQueueOverwrite_KeepOld(q, item) == IF Len(q) < 1 THEN <<item>> ELSE q

\* xQueueOverwrite on a depth-1 queue
xQueueOverwrite(q, item) == <<item>>

\* xQueuePeek with a zero timeout: <<found, value>>; the queue is not changed
xQueuePeek(q, old) ==
    IF Len(q) > 0 THEN <<TRUE, Head(q)>> ELSE <<FALSE, old>>

\* mutant: on a full queue the oldest record makes room for the new one
log_print_EvictOldest(q, rec) ==
    IF Len(q) < LOG_QUEUE_DEPTH THEN Append(q, rec) ELSE Append(Tail(q), rec)

\* log_print: format, then xQueueSend( g_log_queue, &msg, 0 )
log_print(q, rec) == xQueueSend(q, rec, LOG_QUEUE_DEPTH)

\* The state main() leaves when it starts the scheduler is Boot(<<>>, FALSE,
\* FALSE).  The other start states are later states of the same run:
\*   logq     the records standing in g_log_queue,
\*   fix      the GPS task has acquired a fix and written its slot,
\*   session  the link is up, the broker has accepted the connection, the
\*            publisher has entered its drain loop and the radio is listening,
\*   helper   the helper call under way (none at boot),
\*   mq       the messages standing in g_mqtt_queue,
\*   radio    where the radio task is in its bring-up ("diag" after the
\*            countdown, "begin" after the probes).
BootAll(logq, fix, session, helper, mq, radio) ==
    LET c0 == CHOOSE c \in Coordinates : c.satellites = 8 IN
    /\ net_events = session
    /\ wifi_pc = IF session THEN "monitor" ELSE "init"
    /\ lwip_owner = "none"
    /\ s_mqtt = IF session THEN "connected" ELSE "null"
    /\ s_mqtt_connected = session
    /\ mqtt_pc = IF session THEN "drain_test" ELSE "wait_wifi"
    /\ msg = NoMsg
    /\ g_mqtt_queue = mq
    /\ g_log_queue = logq
    /\ g_gs_location_q = IF fix THEN <<[lat |-> c0.latitude, lon |-> c0.longitude,
                                        alt_m |-> c0.altitude]>>
                         ELSE <<>>
    /\ g_rocket_location_q = <<>>
    /\ lora_pc = IF session THEN "poll" ELSE radio
    /\ pkt = NoPkt
    /\ parser = [fix |-> fix, coord |-> c0]
    /\ had_fix = fix
    /\ last_pub = 0
    /\ gps_pc = "poll"
    /\ gps_json = NoMsg
    /\ uart_rx = -1
    /\ nmea_len = 0
    /\ tick = 0
    /\ servo_pc = "peek_gs"
    /\ gs = NoLoc
    /\ rkt = NoLoc
    /\ have_gs = FALSE
    /\ have_rkt = FALSE
    /\ pwm = <<PULSE_CENTER, PULSE_CENTER>>
    /\ pwm_calls = <<>>
    /\ usb_pc = "wait"
    /\ s_log_enabled = TRUE
    /\ accepted = <<>>
    /\ published = <<>>
    /\ seen_connected = session
    /\ deq_since_clear = 0
    /\ pub_since_clear = 0
    /\ waiting = {}
    /\ wrote_gs = IF fix THEN <<[lat |-> c0.latitude, lon |-> c0.longitude,
                                 alt_m |-> c0.altitude]>>
                 ELSE <<>>
    /\ wrote_rkt = <<>>
    /\ log_calls = 0
    /\ log_dropped = {}
    /\ log_taken = FALSE
    /\ log_out = [rec |-> [kind |-> "none", n |-> 0], shown |-> FALSE]
    /\ since_pub = 0
    /\ call = helper
    /\ dropped = {}
    /\ rx = IF session THEN [found |-> "packet", started |-> TRUE]
            ELSE [found |-> "none", started |-> FALSE]
    /\ core_of = [t \in Tasks |-> 0]

BootWith(logq, fix, session, helper) ==
    BootAll(logq, fix, session, helper, <<>>, "begin")

\* no helper call under way
NoCall == [fn |-> "none", done |-> TRUE, r |-> 0]

Boot(logq, fix, session) == BootWith(logq, fix, session, NoCall)

\* a log record; n numbers the records of LogSpec's producer and is 0 elsewhere
Rec(kind) == [kind |-> kind, n |-> 0]

\* n records of the GPS sentence echo standing in the log queue
Backlog(n) == [i \in 1..n |-> Rec("gps_raw")]

Init == Boot(<<>>, FALSE, FALSE)

\* ---- wifi_task (Tasks/WiFi/wifi_task.cpp) --------------------------------
\* cyw43_arch_init(): on failure the task logs and deletes itself
WifiInit ==
    /\ wifi_pc = "init"
    /\ \E failed \in BOOLEAN :
         IF failed
         THEN /\ g_log_queue' = log_print(g_log_queue, Rec("wifi_init_failed"))
              /\ wifi_pc' = "deleted"
         ELSE /\ wifi_pc' = "connect"
              /\ UNCHANGED g_log_queue
    /\ UNCHANGED <<net_events, lwip_owner, mqttVars, g_mqtt_queue, locVars, loraVars, gpsVars,
                   tick, servoVars, usbVars, qHist, pubHist, logHist, locHist, gpsHist, call, dropped, rx, core_of>>

\* top of the for loop: log_print( "[wifi] connecting to ..." )
WifiConnect ==
    /\ wifi_pc = "connect"
    /\ g_log_queue' = log_print(g_log_queue, Rec("wifi_connecting"))
    /\ wifi_pc' = "join"
    /\ UNCHANGED <<net_events, lwip_owner, mqttVars, g_mqtt_queue, locVars, loraVars, gpsVars,
                   tick, servoVars, usbVars, qHist, pubHist, logHist, locHist, gpsHist, call, dropped, rx, core_of>>

\* cyw43_arch_wifi_connect_timeout_ms returned: retry after the delay, or log
\* the address and set EVT_WIFI_CONNECTED
WifiJoin ==
    /\ wifi_pc = "join"
    /\ \E err \in {0, -1} :
         IF err # 0
         THEN /\ g_log_queue' = log_print(g_log_queue, Rec("wifi_connect_failed"))
              /\ wifi_pc' = "connect"
              /\ UNCHANGED net_events
         ELSE /\ g_log_queue' = log_print(g_log_queue, Rec("wifi_connected"))
              /\ net_events' = TRUE
              /\ wifi_pc' = "monitor"
    /\ UNCHANGED <<lwip_owner, mqttVars, g_mqtt_queue, locVars, loraVars, gpsVars,
                   tick, servoVars, usbVars, qHist, pubHist, logHist, locHist, gpsHist, call, dropped, rx, core_of>>

\* mutant: the link loss is logged and the flag is left set
WifiLinkLost_NoClear ==
    /\ wifi_pc = "monitor"
    /\ g_log_queue' = log_print(g_log_queue, Rec("wifi_link_lost"))
    /\ UNCHANGED net_events
    /\ wifi_pc' = "connect"
    /\ UNCHANGED <<lwip_owner, mqttVars, g_mqtt_queue, locVars, loraVars, gpsVars,
                   tick, servoVars, usbVars, qHist, pubHist, logHist, locHist, gpsHist, call, dropped, rx, core_of>>

\* monitor loop: netif_is_link_up() is false; a poll that finds the link up
\* changes nothing
WifiLinkLost ==
    /\ wifi_pc = "monitor"
    /\ g_log_queue' = log_print(g_log_queue, Rec("wifi_link_lost"))
    /\ net_events' = FALSE
    /\ wifi_pc' = "connect"
    /\ UNCHANGED <<lwip_owner, mqttVars, g_mqtt_queue, locVars, loraVars, gpsVars,
                   tick, servoVars, usbVars, qHist, pubHist, logHist, locHist, gpsHist, call, dropped, rx, core_of>>

\* ---- mqtt_task (Tasks/MQTT/mqtt_task.cpp) --------------------------------
\* connection_cb: the only statement is the store to s_mqtt_connected
connection_cb(status) == (status = "ACCEPTED")

\* mutant: the callback reports the status with log_print
ConnectionCb_Logs ==
    /\ s_mqtt \in {"connecting", "connected"}
    /\ \E status \in ConnStatus :
         /\ (status = "ACCEPTED") => (s_mqtt = "connecting")
         /\ s_mqtt_connected' = connection_cb(status)
         /\ s_mqtt' = IF status = "ACCEPTED" THEN "connected" ELSE "closed"
         /\ deq_since_clear' = IF status = "ACCEPTED" THEN 0 ELSE deq_since_clear
         /\ pub_since_clear' = IF status = "ACCEPTED" THEN 0 ELSE pub_since_clear
    /\ g_log_queue' = log_print(g_log_queue, Rec("mqtt_status"))
    /\ UNCHANGED <<netVars, mqtt_pc, msg, g_mqtt_queue, locVars,
                   loraVars, gpsVars, tick, servoVars, usbVars, qHist,
                   published, seen_connected, logHist, locHist, gpsHist, call, dropped, rx, core_of>>

\* lwIP runs the callback for the outcome of a pending connect request and
\* for the loss of an established connection
ConnectionCb ==
    /\ s_mqtt \in {"connecting", "connected"}
    /\ \E status \in ConnStatus :
         /\ (status = "ACCEPTED") => (s_mqtt = "connecting")
         /\ s_mqtt_connected' = connection_cb(status)
         /\ s_mqtt' = IF status = "ACCEPTED" THEN "connected" ELSE "closed"
         /\ deq_since_clear' = IF status = "ACCEPTED" THEN 0 ELSE deq_since_clear
         /\ pub_since_clear' = IF status = "ACCEPTED" THEN 0 ELSE pub_since_clear
    /\ UNCHANGED <<netVars, mqtt_pc, msg, g_mqtt_queue, g_log_queue, locVars,
                   loraVars, gpsVars, tick, servoVars, usbVars, qHist,
                   published, seen_connected, logHist, locHist, gpsHist, call, dropped, rx, core_of>>

\* mutant: the task goes on without waiting for EVT_WIFI_CONNECTED
MqttWaitBits_NoWait ==
    /\ mqtt_pc = "wait_wifi"
    /\ g_log_queue' = log_print(g_log_queue, Rec("mqtt_connecting"))
    /\ mqtt_pc' = "connect"
    /\ UNCHANGED <<netVars, s_mqtt, s_mqtt_connected, msg, g_mqtt_queue, locVars,
                   loraVars, gpsVars, tick, servoVars, usbVars, qHist, pubHist,
                   logHist, locHist, gpsHist, call, dropped, rx, core_of>>

\* xEventGroupWaitBits( EVT_WIFI_CONNECTED, portMAX_DELAY ) returns, then
\* log_print( "[mqtt] connecting to ..." )
MqttWaitBits ==
    /\ mqtt_pc = "wait_wifi"
    /\ net_events
    /\ g_log_queue' = log_print(g_log_queue, Rec("mqtt_connecting"))
    /\ mqtt_pc' = "connect"
    /\ UNCHANGED <<netVars, s_mqtt, s_mqtt_connected, msg, g_mqtt_queue, locVars,
                   loraVars, gpsVars, tick, servoVars, usbVars, qHist, pubHist,
                   logHist, locHist, gpsHist, call, dropped, rx, core_of>>

\* mutant: after a failed connect request the task stops for good
MqttConnect_GivesUp ==
    /\ mqtt_pc = "connect"
    /\ \E err \in {0, -1} :
         /\ (s_mqtt \in {"connecting", "connected"}) => (err # 0)
         /\ IF err # 0
            THEN /\ g_log_queue' = log_print(g_log_queue, Rec("mqtt_connect_error"))
                 /\ s_mqtt' = IF s_mqtt = "null" THEN "closed" ELSE s_mqtt
                 /\ mqtt_pc' = "stopped"
            ELSE /\ s_mqtt' = "connecting"
                 /\ mqtt_pc' = "grace"
                 /\ UNCHANGED g_log_queue
    /\ UNCHANGED <<netVars, s_mqtt_connected, msg, g_mqtt_queue, locVars,
                   loraVars, gpsVars, tick, servoVars, usbVars, qHist, pubHist,
                   logHist, locHist, gpsHist, call, dropped, rx, core_of>>

\* broker_connect(): the broker address is a valid literal; the client is
\* created on first use; mqtt_client_connect refuses a client that is not
\* disconnected and may fail for other reasons
MqttConnect ==
    /\ mqtt_pc = "connect"
    /\ \E err \in {0, -1} :
         /\ (s_mqtt \in {"connecting", "connected"}) => (err # 0)
         /\ IF err # 0
            THEN /\ g_log_queue' = log_print(g_log_queue, Rec("mqtt_connect_error"))
                 /\ s_mqtt' = IF s_mqtt = "null" THEN "closed" ELSE s_mqtt
                 /\ mqtt_pc' = "delay_err"
            ELSE /\ s_mqtt' = "connecting"
                 /\ mqtt_pc' = "grace"
                 /\ UNCHANGED g_log_queue
    /\ UNCHANGED <<netVars, s_mqtt_connected, msg, g_mqtt_queue, locVars,
                   loraVars, gpsVars, tick, servoVars, usbVars, qHist, pubHist,
                   logHist, locHist, gpsHist, call, dropped, rx, core_of>>

\* the end of one of the three vTaskDelay calls that lead back to the top
MqttRetryDelay ==
    /\ mqtt_pc \in {"delay_err", "delay_hs", "delay_lost"}
    /\ mqtt_pc' = "wait_wifi"
    /\ UNCHANGED <<netVars, s_mqtt, s_mqtt_connected, msg, g_mqtt_queue,
                   g_log_queue, locVars, loraVars, gpsVars, tick, servoVars,
                   usbVars, qHist, pubHist, logHist, locHist, gpsHist, call, dropped, rx, core_of>>

\* mutant: the drain loop's body is entered after the grace period without a
\* read of the flag
MqttGrace_NoFlagRead ==
    /\ mqtt_pc = "grace"
    /\ g_log_queue' = log_print(g_log_queue, Rec("mqtt_connected"))
    /\ mqtt_pc' = "recv"
    /\ UNCHANGED <<netVars, s_mqtt, s_mqtt_connected, msg, g_mqtt_queue, locVars,
                   loraVars, gpsVars, tick, servoVars, usbVars, qHist, pubHist,
                   logHist, locHist, gpsHist, call, dropped, rx, core_of>>

\* mutant: after a handshake timeout the task calls broker_connect again at
\* once, without the backoff and without the wait for the link
MqttGrace_NoBackoff ==
    /\ mqtt_pc = "grace"
    /\ IF ~s_mqtt_connected
       THEN /\ g_log_queue' = log_print(g_log_queue, Rec("mqtt_handshake_timeout"))
            /\ mqtt_pc' = "connect"
            /\ UNCHANGED seen_connected
       ELSE /\ g_log_queue' = log_print(g_log_queue, Rec("mqtt_connected"))
            /\ mqtt_pc' = "drain_test"
            /\ seen_connected' = TRUE
    /\ UNCHANGED <<netVars, s_mqtt, s_mqtt_connected, msg, g_mqtt_queue, locVars,
                   loraVars, gpsVars, tick, servoVars, usbVars, qHist, published,
                   deq_since_clear, pub_since_clear, logHist, locHist, gpsHist,
                   call, dropped, rx, core_of>>

\* after the 2 s grace period: if ( !s_mqtt_connected ) ... continue
MqttGrace ==
    /\ mqtt_pc = "grace"
    /\ IF ~s_mqtt_connected
       THEN /\ g_log_queue' = log_print(g_log_queue, Rec("mqtt_handshake_timeout"))
            /\ mqtt_pc' = "delay_hs"
            /\ UNCHANGED seen_connected
       ELSE /\ g_log_queue' = log_print(g_log_queue, Rec("mqtt_connected"))
            /\ mqtt_pc' = "drain_test"
            /\ seen_connected' = TRUE
    /\ UNCHANGED <<netVars, s_mqtt, s_mqtt_connected, msg, g_mqtt_queue, locVars,
                   loraVars, gpsVars, tick, servoVars, usbVars, qHist, published,
                   deq_since_clear, pub_since_clear, logHist, locHist, gpsHist, call, dropped, rx, core_of>>

\* mutant: while ( true )
MqttDrainTest_Always ==
    /\ mqtt_pc = "drain_test"
    /\ mqtt_pc' = "recv"
    /\ seen_connected' = (seen_connected \/ s_mqtt_connected)
    /\ UNCHANGED <<netVars, s_mqtt, s_mqtt_connected, msg, g_mqtt_queue,
                   g_log_queue, locVars, loraVars, gpsVars, tick, servoVars,
                   usbVars, qHist, published, deq_since_clear, pub_since_clear,
                   logHist, locHist, gpsHist, call, dropped, rx, core_of>>

\* while ( s_mqtt_connected ): enter the body, or leave and log the loss
MqttDrainTest ==
    /\ mqtt_pc = "drain_test"
    /\ IF s_mqtt_connected
       THEN /\ mqtt_pc' = "recv"
            /\ seen_connected' = TRUE
            /\ UNCHANGED g_log_queue
       ELSE /\ g_log_queue' = log_print(g_log_queue, Rec("mqtt_broker_lost"))
            /\ mqtt_pc' = "delay_lost"
            /\ UNCHANGED seen_connected
    /\ UNCHANGED <<netVars, s_mqtt, s_mqtt_connected, msg, g_mqtt_queue, locVars,
                   loraVars, gpsVars, tick, servoVars, usbVars, qHist, published,
                   deq_since_clear, pub_since_clear, logHist, locHist, gpsHist, call, dropped, rx, core_of>>

\* one more event counted while the flag is clear (the count saturates at 2)
CountWhileClear(c) == IF s_mqtt_connected THEN c ELSE IF c < 2 THEN c + 1 ELSE 2

\* mutant: the head of the queue is read and left in the queue
MqttReceive_Peek ==
    /\ mqtt_pc = "recv"
    /\ IF g_mqtt_queue # <<>>
       THEN /\ msg' = Head(g_mqtt_queue)
            /\ mqtt_pc' = "publish"
            /\ deq_since_clear' = CountWhileClear(deq_since_clear)
       ELSE /\ mqtt_pc' = "drain_test"
            /\ UNCHANGED <<msg, deq_since_clear>>
    /\ UNCHANGED <<netVars, s_mqtt, s_mqtt_connected, g_mqtt_queue, g_log_queue,
                   locVars, loraVars, gpsVars, tick, servoVars, usbVars, qHist,
                   published, seen_connected, pub_since_clear, logHist, locHist, gpsHist, call, dropped, rx, core_of>>

\* xQueueReceive( g_mqtt_queue, &msg, 500 ms ): a message arrives within the
\* timeout, or the timeout ends with the queue still empty
MqttReceive ==
    /\ mqtt_pc = "recv"
    /\ IF g_mqtt_queue # <<>>
       THEN /\ msg' = Head(g_mqtt_queue)
            /\ g_mqtt_queue' = Tail(g_mqtt_queue)
            /\ mqtt_pc' = "publish"
            /\ deq_since_clear' = CountWhileClear(deq_since_clear)
       ELSE /\ mqtt_pc' = "drain_test"
            /\ UNCHANGED <<msg, g_mqtt_queue, deq_since_clear>>
    /\ UNCHANGED <<netVars, s_mqtt, s_mqtt_connected, g_log_queue, locVars,
                   loraVars, gpsVars, tick, servoVars, usbVars, qHist, published,
                   seen_connected, pub_since_clear, logHist, locHist, gpsHist, call, dropped, rx, core_of>>

\* mqtt_publish( s_mqtt, msg.topic, msg.payload, ..., QoS 0 ); the result is
\* not looked at
MqttPublish ==
    /\ mqtt_pc = "publish"
    /\ published' = Append(published, msg)
    /\ msg' = NoMsg
    /\ mqtt_pc' = "drain_test"
    /\ pub_since_clear' = CountWhileClear(pub_since_clear)
    /\ UNCHANGED <<netVars, s_mqtt, s_mqtt_connected, g_mqtt_queue, g_log_queue,
                   locVars, loraVars, gpsVars, tick, servoVars, usbVars, qHist,
                   seen_connected, deq_since_clear, logHist, locHist, gpsHist, call, dropped, rx, core_of>>

\* ---- g_mqtt_queue producers ----------------------------------------------
\* the message as it sits in the queue: seq is its rank among the accepted
\* messages (history only, not part of MqttMessage)
Tag(m) == [topic |-> m.topic, payload |-> m.payload, seq |-> Len(accepted) + 1]

\* a producer's xQueueSend on g_mqtt_queue at the moment it returns
Enqueue(m) ==
    /\ (Len(g_mqtt_queue) < MQTT_QUEUE_DEPTH) => (Len(accepted) < MaxMsgs)
    /\ g_mqtt_queue' = xQueueSend(g_mqtt_queue, Tag(m), MQTT_QUEUE_DEPTH)
    /\ IF Len(g_mqtt_queue) < MQTT_QUEUE_DEPTH
       THEN /\ accepted' = Append(accepted, Tag(m))
            /\ waiting' = IF s_mqtt_connected THEN waiting
                          ELSE waiting \cup {Len(accepted) + 1}
       ELSE UNCHANGED <<accepted, waiting>>

\* the record of a call that found the queue full and returned errQUEUE_FULL:
\* the message m is discarded; wait_ms is the block time the call was made with
Discard(m, wait_ms) ==
    IF Len(g_mqtt_queue) < MQTT_QUEUE_DEPTH THEN dropped
    ELSE dropped \cup {[topic |-> m.topic, wait_ms |-> wait_ms]}

\* ---- lora_task (Tasks/LoRa/lora_task.cpp) --------------------------------
\* the bytes diag_spi_read_reg can return: 0x00, 0x12, 0x34, 0xFF
ProbeBytes == {0, 18, 52, 255}

\* the classification line diag_spi logs for the two probe bytes
diag_spi(no_pull, pullup) ==
    IF no_pull = 18 THEN "lora_diag_ok"
    ELSE IF no_pull = 0 /\ pullup = 255 THEN "lora_diag_miso_not_connected"
    ELSE IF no_pull = 0 /\ pullup = 0 THEN "lora_diag_miso_shorted"
    ELSE IF no_pull = 255 /\ pullup = 255 THEN "lora_diag_reset_or_unpowered"
    ELSE "lora_diag_unexpected"

\* diag_spi(), after the countdown: the two reads of RegVersion, the line
\* with the two bytes and the classification line
LoraDiag ==
    /\ lora_pc = "diag"
    /\ \E no_pull \in ProbeBytes, pullup \in ProbeBytes :
         g_log_queue' =
            log_print(log_print(g_log_queue,
                                [kind |-> "lora_diag_raw", n |-> 0,
                                 no_pull |-> no_pull, pullup |-> pullup]),
                      Rec(diag_spi(no_pull, pullup)))
    /\ lora_pc' = "begin"
    /\ UNCHANGED <<netVars, mqttVars, g_mqtt_queue, locVars, pkt, gpsVars, tick,
                   servoVars, usbVars, qHist, pubHist, logHist, locHist, gpsHist,
                   call, dropped, rx, core_of>>

\* mutant: after a failed begin the task goes on to listen
LoraBegin_GoesOn ==
    /\ lora_pc = "begin"
    /\ \E state \in {0, -2} :
         IF state # 0
         THEN /\ g_log_queue' = log_print(g_log_queue, Rec("lora_init_failed"))
              /\ lora_pc' = "header"
         ELSE /\ g_log_queue' = log_print(g_log_queue, Rec("lora_ready"))
              /\ lora_pc' = "header"
    /\ UNCHANGED <<netVars, mqttVars, g_mqtt_queue, locVars, pkt, gpsVars, tick,
                   servoVars, usbVars, qHist, pubHist, logHist, locHist, gpsHist, call, dropped, rx, core_of>>

\* s_radio.begin( cfg ): on error log and park for ever
LoraBegin ==
    /\ lora_pc = "begin"
    /\ \E state \in {0, -2} :
         IF state # 0
         THEN /\ g_log_queue' = log_print(g_log_queue, Rec("lora_init_failed"))
              /\ lora_pc' = "halted"
         ELSE /\ g_log_queue' = log_print(g_log_queue, Rec("lora_ready"))
              /\ lora_pc' = "header"
    /\ UNCHANGED <<netVars, mqttVars, g_mqtt_queue, locVars, pkt, gpsVars, tick,
                   servoVars, usbVars, qHist, pubHist, logHist, locHist, gpsHist, call, dropped, rx, core_of>>

\* mutant: the CSV header line is not logged
LoraHeader_Silent ==
    /\ lora_pc = "header"
    /\ lora_pc' = "poll"
    /\ rx' = [found |-> "none", started |-> TRUE]
    /\ UNCHANGED <<netVars, mqttVars, g_mqtt_queue, g_log_queue, locVars, pkt,
                   gpsVars, tick, servoVars, usbVars, qHist, pubHist, logHist,
                   locHist, gpsHist, call, dropped, core_of>>

\* the CSV header line, then the first s_radio.startReceive()
LoraHeader ==
    /\ lora_pc = "header"
    /\ g_log_queue' = log_print(g_log_queue, Rec("lora_csv_header"))
    /\ lora_pc' = "poll"
    /\ rx' = [found |-> "none", started |-> TRUE]
    /\ UNCHANGED <<netVars, mqttVars, g_mqtt_queue, locVars, pkt, gpsVars, tick,
                   servoVars, usbVars, qHist, pubHist, logHist, locHist, gpsHist, call, dropped, core_of>>

\* packetAvailable() is true and readPacket( pkt ) has returned one of the
\* packets given
LoraPollFrom(packets) ==
    /\ lora_pc = "poll"
    /\ \E p \in packets : pkt' = p
    /\ lora_pc' = "decode"
    /\ rx' = [found |-> "packet", started |-> FALSE]
    /\ UNCHANGED <<netVars, mqttVars, g_mqtt_queue, g_log_queue, locVars, gpsVars,
                   tick, servoVars, usbVars, qHist, pubHist, logHist, locHist, gpsHist, call, dropped, core_of>>

LoraPoll == LoraPollFrom(Packets)

\* mutant: the result of deserialize is not looked at
LoraDecode_NoCheck ==
    /\ lora_pc = "decode"
    /\ IF ~pkt.read_ok
       THEN /\ g_log_queue' = log_print(g_log_queue, Rec("lora_read_error"))
            /\ lora_pc' = "poll"
            /\ pkt' = NoPkt
            /\ rx' = [found |-> "packet", started |-> TRUE]
       ELSE /\ g_log_queue' = log_print(g_log_queue,
                   [kind |-> "lora_csv_row", n |-> 0, d |-> pkt.d,
                    rssi |-> pkt.rssi, snr |-> pkt.snr])
            /\ lora_pc' = "pub"
            /\ UNCHANGED <<pkt, rx>>
    /\ UNCHANGED <<netVars, mqttVars, g_mqtt_queue, locVars, gpsVars, tick,
                   servoVars, usbVars, qHist, pubHist, logHist, locHist, gpsHist, call, dropped, core_of>>

\* the three outcomes of one packet: read error, bad SIGMA frame, decoded
\* frame (its CSV row is logged here)
LoraDecode ==
    /\ lora_pc = "decode"
    /\ IF ~pkt.read_ok
       THEN /\ g_log_queue' = log_print(g_log_queue, Rec("lora_read_error"))
            /\ lora_pc' = "poll"
            /\ pkt' = NoPkt
            /\ rx' = [found |-> "packet", started |-> TRUE]
       ELSE IF ~pkt.frame_ok
       THEN /\ g_log_queue' = log_print(g_log_queue,
                   [kind |-> "lora_bad_frame", n |-> 0, len |-> pkt.len,
                    rssi |-> pkt.rssi, snr |-> pkt.snr])
            /\ lora_pc' = "poll"
            /\ pkt' = NoPkt
            /\ rx' = [found |-> "packet", started |-> TRUE]
       ELSE /\ g_log_queue' = log_print(g_log_queue,
                   [kind |-> "lora_csv_row", n |-> 0, d |-> pkt.d,
                    rssi |-> pkt.rssi, snr |-> pkt.snr])
            /\ lora_pc' = "pub"
            /\ UNCHANGED <<pkt, rx>>
    /\ UNCHANGED <<netVars, mqttVars, g_mqtt_queue, locVars, gpsVars, tick,
                   servoVars, usbVars, qHist, pubHist, logHist, locHist, gpsHist, call, dropped, core_of>>

\* the JSON payload built by snprintf from the decoded frame
LoraMessage(p) ==
    [topic |-> "rocket/lora",
     payload |-> [boot_ms |-> p.d.boot_ms, state |-> p.d.state,
                  sats |-> p.d.satellites, flags |-> p.d.flags,
                  lat |-> p.d.lat, lon |-> p.d.lon,
                  alt_gps_m |-> p.d.alt_gps_m, alt_baro_m |-> p.d.alt_baro_m,
                  speed_ms |-> p.d.speed_ms, q |-> p.d.q,
                  rssi |-> p.rssi, snr |-> p.snr]]

\* if ( mqtt_is_connected() ) { ...; xQueueSend( g_mqtt_queue, &m, 0 ); }
LoraPublish ==
    /\ lora_pc = "pub"
    /\ IF s_mqtt_connected
       THEN /\ Enqueue(LoraMessage(pkt))
            /\ dropped' = Discard(LoraMessage(pkt), LORA_SEND_WAIT_MS)
       ELSE UNCHANGED <<g_mqtt_queue, accepted, waiting, dropped>>
    /\ lora_pc' = "loc"
    /\ UNCHANGED <<netVars, mqttVars, g_log_queue, locVars, pkt, gpsVars, tick,
                   servoVars, usbVars, pubHist, logHist, locHist, gpsHist, call, rx, core_of>>

\* mutant: the barometric altitude is taken instead of the GPS altitude
LoraLocation_Baro(d) == [lat |-> d.lat, lon |-> d.lon, alt_m |-> d.alt_baro_m]

\* the LocationMsg built from a decoded frame
LoraLocation(d) == [lat |-> d.lat, lon |-> d.lon, alt_m |-> d.alt_gps_m]

\* mutant: the iteration for a decoded frame ends without startReceive
LoraLocate_NoRearm ==
    /\ lora_pc = "loc"
    /\ IF "GPS_VALID" \in pkt.d.flags
       THEN /\ g_rocket_location_q' =
                   xQueueOverwrite(g_rocket_location_q, LoraLocation(pkt.d))
            /\ wrote_rkt' = <<LoraLocation(pkt.d)>>
       ELSE UNCHANGED <<g_rocket_location_q, wrote_rkt>>
    /\ lora_pc' = "poll"
    /\ pkt' = NoPkt
    /\ rx' = [found |-> "packet", started |-> FALSE]
    /\ UNCHANGED <<netVars, mqttVars, g_mqtt_queue, g_log_queue, g_gs_location_q,
                   gpsVars, tick, servoVars, usbVars, qHist, pubHist, logHist,
                   wrote_gs, gpsHist, call, dropped, core_of>>

\* if ( d.flags & SIGMA_FLAG_GPS_VALID ) xQueueOverwrite( g_rocket_location_q );
\* then s_radio.startReceive() and the 10 ms delay
LoraLocate ==
    /\ lora_pc = "loc"
    /\ IF "GPS_VALID" \in pkt.d.flags
       THEN /\ g_rocket_location_q' =
                   xQueueOverwrite(g_rocket_location_q, LoraLocation(pkt.d))
            /\ wrote_rkt' = <<LoraLocation(pkt.d)>>
       ELSE UNCHANGED <<g_rocket_location_q, wrote_rkt>>
    /\ lora_pc' = "poll"
    /\ pkt' = NoPkt
    /\ rx' = [found |-> "packet", started |-> TRUE]
    /\ UNCHANGED <<netVars, mqttVars, g_mqtt_queue, g_log_queue, g_gs_location_q,
                   gpsVars, tick, servoVars, usbVars, qHist, pubHist, logHist,
                   wrote_gs, gpsHist, call, dropped, core_of>>

\* packetAvailable() is false: the iteration goes straight to its delay
LoraIdle ==
    /\ lora_pc = "poll"
    /\ rx' = [found |-> "idle", started |-> FALSE]
    /\ UNCHANGED <<netVars, mqttVars, g_mqtt_queue, g_log_queue, locVars, loraVars,
                   gpsVars, tick, servoVars, usbVars, qHist, pubHist, logHist,
                   locHist, gpsHist, call, dropped, core_of>>

\* ---- gps_task (Tasks/GPS/gps_task.cpp) -----------------------------------
\* the UART delivers one NMEA sentence: every byte goes to parser.parse, and
\* the sentence is echoed with log_print( "[gps raw] ..." ) at its line feed
GpsUart ==
    /\ gps_pc = "poll"
    /\ \E f \in BOOLEAN, c \in Coordinates :
         parser' = [fix |-> f, coord |-> IF f THEN c ELSE parser.coord]
    /\ g_log_queue' = log_print(g_log_queue, Rec("gps_raw"))
    /\ nmea_len' = 0
    /\ UNCHANGED <<netVars, mqttVars, g_mqtt_queue, locVars, loraVars, had_fix,
                   last_pub, gps_pc, gps_json, uart_rx, tick, servoVars, usbVars, qHist,
                   pubHist, logHist, locHist, gpsHist, call, dropped, rx, core_of>>

\* the bytes the UART can deliver: NUL, LF, CR, a printable character and a
\* byte above 127 (negative as a char)
Bytes == {0, 10, 13, 36, 200}

\* uart_is_readable() is true: char c = uart_getc( GPS_UART )
GpsGetc ==
    /\ gps_pc = "poll"
    /\ \E c \in Bytes : uart_rx' = c
    /\ gps_pc' = "byte"
    /\ UNCHANGED <<netVars, mqttVars, g_mqtt_queue, g_log_queue, locVars, loraVars,
                   parser, had_fix, last_pub, gps_json, nmea_len, tick, servoVars,
                   usbVars, qHist, pubHist, logHist, locHist, gpsHist, call,
                   dropped, rx, core_of>>

\* mutant: a byte that finds the buffer full is counted like any other
GpsEcho_NoReset ==
    /\ gps_pc = "byte"
    /\ IF uart_rx = 10
       THEN \E f \in BOOLEAN, c \in Coordinates :
              parser' = [fix |-> f, coord |-> IF f THEN c ELSE parser.coord]
       ELSE UNCHANGED parser
    /\ IF uart_rx = 0
       THEN UNCHANGED <<nmea_len, g_log_queue>>
       ELSE IF uart_rx = 10
       THEN /\ g_log_queue' = IF nmea_len > 0
                                THEN log_print(g_log_queue, Rec("gps_raw"))
                                ELSE g_log_queue
            /\ nmea_len' = 0
       ELSE IF uart_rx # 13
       THEN /\ nmea_len' = nmea_len + 1
            /\ UNCHANGED g_log_queue
       ELSE UNCHANGED <<nmea_len, g_log_queue>>
    /\ uart_rx' = -1
    /\ gps_pc' = "poll"
    /\ UNCHANGED <<netVars, mqttVars, g_mqtt_queue, locVars, loraVars, had_fix,
                   last_pub, gps_json, tick, servoVars, usbVars, qHist, pubHist,
                   logHist, locHist, gpsHist, call, dropped, rx, core_of>>

\* parser.parse( c ) and the echo of the raw sentence: a NUL is skipped, a
\* line feed ends the sentence (logged if it is not empty), any other byte
\* but a carriage return is stored while there is room, and a byte that
\* finds the buffer full empties it; the parser has a whole sentence, and
\* with it a new fix state, at the line feed
GpsEcho ==
    /\ gps_pc = "byte"
    /\ IF uart_rx = 10
       THEN \E f \in BOOLEAN, c \in Coordinates :
              parser' = [fix |-> f, coord |-> IF f THEN c ELSE parser.coord]
       ELSE UNCHANGED parser
    /\ IF uart_rx = 0
       THEN UNCHANGED <<nmea_len, g_log_queue>>
       ELSE IF uart_rx = 10
       THEN /\ g_log_queue' = IF nmea_len > 0
                                THEN log_print(g_log_queue, Rec("gps_raw"))
                                ELSE g_log_queue
            /\ nmea_len' = 0
       ELSE IF uart_rx # 13 /\ nmea_len < NMEA_BUF_SIZE - 1
       THEN /\ nmea_len' = nmea_len + 1
            /\ UNCHANGED g_log_queue
       ELSE IF nmea_len >= NMEA_BUF_SIZE - 1
       THEN /\ nmea_len' = 0
            /\ UNCHANGED g_log_queue
       ELSE UNCHANGED <<nmea_len, g_log_queue>>
    /\ uart_rx' = -1
    /\ gps_pc' = "poll"
    /\ UNCHANGED <<netVars, mqttVars, g_mqtt_queue, locVars, loraVars, had_fix,
                   last_pub, gps_json, tick, servoVars, usbVars, qHist, pubHist,
                   logHist, locHist, gpsHist, call, dropped, rx, core_of>>

\* ( now - last_pub ) on TickType_t
TickDiff(now, then) == (now - then) % TickWrap

GpsLocation(c) == [lat |-> c.latitude, lon |-> c.longitude, alt_m |-> c.altitude]

\* the JSON payload built by snprintf from the parser's coordinate
GpsMessage(c) ==
    [topic |-> "rocket/gps",
     payload |-> [lat |-> c.latitude, lon |-> c.longitude, alt |-> c.altitude,
                  sats |-> c.satellites]]

\* mutant: the acquisition is logged on every poll that finds a fix
GpsPoll_LogEveryPoll ==
    /\ gps_pc = "poll"
    /\ IF parser.fix
       THEN /\ g_log_queue' = log_print(g_log_queue, Rec("gps_fix_acquired"))
            /\ had_fix' = TRUE
            /\ g_gs_location_q' =
                   xQueueOverwrite(g_gs_location_q, GpsLocation(parser.coord))
            /\ wrote_gs' = <<GpsLocation(parser.coord)>>
            /\ IF TickDiff(tick, last_pub) >= pdMS_TO_TICKS(GPS_PUB_MS)
               THEN /\ last_pub' = tick
                    /\ gps_json' = GpsMessage(parser.coord)
                    /\ gps_pc' = "send"
                    /\ since_pub' = 0
               ELSE UNCHANGED <<last_pub, gps_json, gps_pc, since_pub>>
       ELSE /\ IF had_fix
               THEN g_log_queue' = log_print(g_log_queue, Rec("gps_fix_lost"))
               ELSE UNCHANGED g_log_queue
            /\ had_fix' = FALSE
            /\ UNCHANGED <<g_gs_location_q, wrote_gs, last_pub, gps_json, gps_pc,
                           since_pub>>
    /\ UNCHANGED <<netVars, mqttVars, g_mqtt_queue, g_rocket_location_q, loraVars,
                   parser, uart_rx, nmea_len, tick, servoVars, usbVars, qHist,
                   pubHist, logHist, wrote_rkt, call, dropped, rx, core_of>>

\* mutant: the slot is overwritten only on the polls that publish
GpsPoll_WriteOnPublish ==
    /\ gps_pc = "poll"
    /\ IF parser.fix
       THEN /\ IF ~had_fix
               THEN g_log_queue' = log_print(g_log_queue, Rec("gps_fix_acquired"))
               ELSE UNCHANGED g_log_queue
            /\ had_fix' = TRUE
            /\ IF TickDiff(tick, last_pub) >= pdMS_TO_TICKS(GPS_PUB_MS)
               THEN /\ last_pub' = tick
                    /\ gps_json' = GpsMessage(parser.coord)
                    /\ gps_pc' = "send"
                    /\ since_pub' = 0
                    /\ g_gs_location_q' =
                          xQueueOverwrite(g_gs_location_q, GpsLocation(parser.coord))
                    /\ wrote_gs' = <<GpsLocation(parser.coord)>>
               ELSE UNCHANGED <<last_pub, gps_json, gps_pc, since_pub,
                                g_gs_location_q, wrote_gs>>
       ELSE /\ IF had_fix
               THEN g_log_queue' = log_print(g_log_queue, Rec("gps_fix_lost"))
               ELSE UNCHANGED g_log_queue
            /\ had_fix' = FALSE
            /\ UNCHANGED <<g_gs_location_q, wrote_gs, last_pub, gps_json, gps_pc,
                           since_pub>>
    /\ UNCHANGED <<netVars, mqttVars, g_mqtt_queue, g_rocket_location_q, loraVars,
                   parser, uart_rx, nmea_len, tick, servoVars, usbVars, qHist,
                   pubHist, logHist, wrote_rkt, call, dropped, rx, core_of>>

\* the part of one loop iteration after the UART is drained, up to the
\* xQueueSend or the 10 ms delay
GpsPoll ==
    /\ gps_pc = "poll"
    /\ IF parser.fix
       THEN /\ IF ~had_fix
               THEN g_log_queue' = log_print(g_log_queue, Rec("gps_fix_acquired"))
               ELSE UNCHANGED g_log_queue
            /\ had_fix' = TRUE
            /\ g_gs_location_q' =
                   xQueueOverwrite(g_gs_location_q, GpsLocation(parser.coord))
            /\ wrote_gs' = <<GpsLocation(parser.coord)>>
            /\ IF TickDiff(tick, last_pub) >= pdMS_TO_TICKS(GPS_PUB_MS)
               THEN /\ last_pub' = tick
                    /\ gps_json' = GpsMessage(parser.coord)
                    /\ gps_pc' = "send"
                    /\ since_pub' = 0
               ELSE UNCHANGED <<last_pub, gps_json, gps_pc, since_pub>>
       ELSE /\ IF had_fix
               THEN g_log_queue' = log_print(g_log_queue, Rec("gps_fix_lost"))
               ELSE UNCHANGED g_log_queue
            /\ had_fix' = FALSE
            /\ UNCHANGED <<g_gs_location_q, wrote_gs, last_pub, gps_json, gps_pc,
                           since_pub>>
    /\ UNCHANGED <<netVars, mqttVars, g_mqtt_queue, g_rocket_location_q, loraVars,
                   parser, uart_rx, nmea_len, tick, servoVars, usbVars, qHist,
                   pubHist, logHist, wrote_rkt, call, dropped, rx, core_of>>

\* xQueueSend( g_mqtt_queue, &msg, 50 ms ) returns: the message went in, or
\* the queue was still full when the timeout ended
GpsSend ==
    /\ gps_pc = "send"
    /\ Enqueue(gps_json)
    /\ dropped' = Discard(gps_json, GPS_SEND_WAIT_MS)
    /\ gps_json' = NoMsg
    /\ gps_pc' = "poll"
    /\ UNCHANGED <<netVars, mqttVars, g_log_queue, locVars, loraVars, parser,
                   had_fix, last_pub, uart_rx, nmea_len, tick, servoVars, usbVars,
                   pubHist, logHist,
                   locHist, gpsHist, call, rx, core_of>>

\* the scheduler's tick interrupt
Tick ==
    /\ tick' = (tick + 1) % TickWrap
    /\ since_pub' = IF since_pub < pdMS_TO_TICKS(GPS_PUB_MS) THEN since_pub + 1
                    ELSE since_pub
    /\ UNCHANGED <<netVars, mqttVars, g_mqtt_queue, g_log_queue, locVars, loraVars,
                   gpsVars, servoVars, usbVars, qHist, pubHist, logHist, locHist,
                   call, dropped, rx, core_of>>

\* ---- servo_task (Tasks/Servo/servo_task.cpp) -----------------------------
\* bearings and elevations GroundStationMath can return for two samples
Bearings == {90, 200}
Elevations == {45}

\* mutant: a bearing above 180 is brought down by half a turn
NormalizeAzimuth_HalfTurn(az) == IF az > 180 THEN az - 180 ELSE az

\* if ( az > 180.0 ) az = 360.0 - az; the comparison is false for a NaN
NormalizeAzimuth(az) == IF az # NaN /\ az > 180 THEN 360 - az ELSE az

\* mutant: the angle is not clamped to [deg_min, deg_max]
angle_to_counts_NoClamp(deg, deg_min, deg_max) ==
    PULSE_MIN + ((deg - deg_min) * (PULSE_MAX - PULSE_MIN)) \div (deg_max - deg_min)

\* angle_to_counts: clamp, then map linearly onto [PULSE_MIN, PULSE_MAX]; the
\* cast to uint16_t drops the fraction
angle_to_counts(deg, deg_min, deg_max) ==
    LET d == IF deg < deg_min THEN deg_min ELSE IF deg > deg_max THEN deg_max ELSE deg
    IN  PULSE_MIN + ((d - deg_min) * (PULSE_MAX - PULSE_MIN)) \div (deg_max - deg_min)

\* the values one call of angle_to_counts can return: both comparisons are
\* false for a NaN, which reaches static_cast<uint16_t> unclamped; that
\* conversion is undefined and leaves whatever the conversion routine of the
\* build returns (zero, the largest uint16_t, or a value in the pulse range)
CountsFor(deg, deg_min, deg_max) ==
    IF deg = NaN THEN {0, PULSE_CENTER, 65535}
    ELSE {angle_to_counts(deg, deg_min, deg_max)}

\* calculateAzimuth and calculateElevation (rocket_math) for two samples: an
\* angle of the set given, or a NaN when a coordinate they compute with is one
calculateAngle(station, rocket, angles) ==
    IF NaN \in {station.lat, station.lon, station.alt_m,
                rocket.lat, rocket.lon, rocket.alt_m}
    THEN {NaN} ELSE angles

\* mutant: the servo task takes the sample out of the slot (xQueueReceive)
ServoPeekGs_Receive ==
    /\ servo_pc = "peek_gs"
    /\ LET r == xQueuePeek(g_gs_location_q, gs)
       IN  /\ gs' = r[2]
           /\ have_gs' = (have_gs \/ r[1])
    /\ g_gs_location_q' = <<>>
    /\ servo_pc' = "peek_rkt"
    /\ UNCHANGED <<netVars, mqttVars, g_mqtt_queue, g_log_queue, g_rocket_location_q,
                   loraVars, gpsVars, tick, rkt, have_rkt, pwm, pwm_calls, usbVars, qHist,
                   pubHist, logHist, locHist, gpsHist, call, dropped, rx, core_of>>

\* mutant: the sample is taken out of the slot and have_gs follows the
\* result of the read instead of being latched
ServoPeekGs_FreshOnly ==
    /\ servo_pc = "peek_gs"
    /\ LET r == xQueuePeek(g_gs_location_q, gs)
       IN  /\ gs' = r[2]
           /\ have_gs' = r[1]
    /\ g_gs_location_q' = <<>>
    /\ servo_pc' = "peek_rkt"
    /\ UNCHANGED <<netVars, mqttVars, g_mqtt_queue, g_log_queue, g_rocket_location_q,
                   loraVars, gpsVars, tick, rkt, have_rkt, pwm, pwm_calls, usbVars,
                   qHist, pubHist, logHist, locHist, gpsHist, call, dropped, rx,
                   core_of>>

\* xQueuePeek( g_gs_location_q, &gs, 0 )
ServoPeekGs ==
    /\ servo_pc = "peek_gs"
    /\ LET r == xQueuePeek(g_gs_location_q, gs)
       IN  /\ gs' = r[2]
           /\ have_gs' = (have_gs \/ r[1])
    /\ servo_pc' = "peek_rkt"
    /\ UNCHANGED <<netVars, mqttVars, g_mqtt_queue, g_log_queue, locVars, loraVars,
                   gpsVars, tick, rkt, have_rkt, pwm, pwm_calls, usbVars, qHist, pubHist,
                   logHist, locHist, gpsHist, call, dropped, rx, core_of>>

\* xQueuePeek( g_rocket_location_q, &rkt, 0 )
ServoPeekRkt ==
    /\ servo_pc = "peek_rkt"
    /\ LET r == xQueuePeek(g_rocket_location_q, rkt)
       IN  /\ rkt' = r[2]
           /\ have_rkt' = (have_rkt \/ r[1])
    /\ servo_pc' = "drive"
    /\ UNCHANGED <<netVars, mqttVars, g_mqtt_queue, g_log_queue, locVars, loraVars,
                   gpsVars, tick, gs, have_gs, pwm, pwm_calls, usbVars, qHist, pubHist,
                   logHist, locHist, gpsHist, call, dropped, rx, core_of>>

\* mutant: one sample is enough to leave the centre
ServoDrive_EitherSample ==
    /\ servo_pc = "drive"
    /\ IF have_gs \/ have_rkt
       THEN /\ \E az \in calculateAngle(gs, rkt, Bearings),
                  el \in calculateAngle(gs, rkt, Elevations) :
                 \E a \in CountsFor(NormalizeAzimuth(az), 0, 180),
                    e \in CountsFor(el, 0, 90) : pwm' = <<a, e>>
            /\ pwm_calls' = <<[ch |-> "azimuth", arg |-> "az_counts"],
                              [ch |-> "zenith", arg |-> "el_counts"]>>
       ELSE /\ pwm' = <<PULSE_CENTER, PULSE_CENTER>>
            /\ pwm_calls' = <<[ch |-> "azimuth", arg |-> "PULSE_CENTER"],
                              [ch |-> "zenith", arg |-> "PULSE_CENTER"]>>
    /\ servo_pc' = "peek_gs"
    /\ UNCHANGED <<netVars, mqttVars, g_mqtt_queue, g_log_queue, locVars, loraVars,
                   gpsVars, tick, gs, rkt, have_gs, have_rkt, usbVars, qHist,
                   pubHist, logHist, locHist, gpsHist, call, dropped, rx, core_of>>

\* both pwm_set_gpio_level calls of the tick, then the 100 ms delay
ServoDrive ==
    /\ servo_pc = "drive"
    /\ IF have_gs /\ have_rkt
       THEN /\ \E az \in calculateAngle(gs, rkt, Bearings),
                  el \in calculateAngle(gs, rkt, Elevations) :
                 \E a \in CountsFor(NormalizeAzimuth(az), 0, 180),
                    e \in CountsFor(el, 0, 90) : pwm' = <<a, e>>
            /\ pwm_calls' = <<[ch |-> "azimuth", arg |-> "az_counts"],
                              [ch |-> "zenith", arg |-> "el_counts"]>>
       ELSE /\ pwm' = <<PULSE_CENTER, PULSE_CENTER>>
            /\ pwm_calls' = <<[ch |-> "azimuth", arg |-> "PULSE_CENTER"],
                              [ch |-> "zenith", arg |-> "PULSE_CENTER"]>>
    /\ servo_pc' = "peek_gs"
    /\ UNCHANGED <<netVars, mqttVars, g_mqtt_queue, g_log_queue, locVars, loraVars,
                   gpsVars, tick, gs, rkt, have_gs, have_rkt, usbVars, qHist,
                   pubHist, logHist, locHist, gpsHist, call, dropped, rx, core_of>>

\* ---- the helpers of servo_task, called on their own ----------------------
\* the two configured axes: azimuth [0, 180] and elevation [0, 90]
Axes == {<<0, 180>>, <<0, 90>>}

\* a call of the azimuth normalisation with a bearing of the full circle
NormalizeCalls ==
    { [fn |-> "normalize", done |-> FALSE, r |-> 0, deg |-> b,
       deg_min |-> 0, deg_max |-> 360] : b \in 0..360 }

\* a call of angle_to_counts for one of the axes, with an angle in the range
\* or up to AngleMargin outside it
AngleCalls ==
    UNION { { [fn |-> "angle_to_counts", done |-> FALSE, r |-> 0, deg |-> d,
               deg_min |-> ax[1], deg_max |-> ax[2]] :
              d \in (ax[1] - AngleMargin)..(ax[2] + AngleMargin) } : ax \in Axes }

\* az = 360.0 - az, or az left as it is
ReturnNormalize ==
    /\ call.fn = "normalize"
    /\ ~call.done
    /\ call' = [call EXCEPT !.done = TRUE, !.r = NormalizeAzimuth(call.deg)]
    /\ UNCHANGED <<netVars, mqttVars, g_mqtt_queue, g_log_queue, locVars, loraVars,
                   gpsVars, tick, servoVars, usbVars, qHist, pubHist, logHist,
                   locHist, gpsHist, dropped, rx, core_of>>

\* return static_cast<uint16_t>( ... )
ReturnAngleToCounts ==
    /\ call.fn = "angle_to_counts"
    /\ ~call.done
    /\ call' = [call EXCEPT !.done = TRUE,
                            !.r = angle_to_counts(call.deg, call.deg_min, call.deg_max)]
    /\ UNCHANGED <<netVars, mqttVars, g_mqtt_queue, g_log_queue, locVars, loraVars,
                   gpsVars, tick, servoVars, usbVars, qHist, pubHist, logHist,
                   locHist, gpsHist, dropped, rx, core_of>>

\* ---- the message buffers (shared.hpp, gps_task.cpp, lora_task.cpp) -------
\* A string in a char buffer is described by len, the number of characters
\* before its first NUL inside the bytes written, term, whether those bytes
\* hold a NUL at all, and bytes, how many bytes of the buffer the call wrote.

\* mutant: the output is not limited to the buffer (sprintf)
snprintf_NoLimit(n, size) == [len |-> n, term |-> TRUE, bytes |-> n + 1]

\* snprintf( buf, size, ... ) of an output that is n characters long when
\* complete: at most size - 1 characters are stored, then the NUL
snprintf(n, size) ==
    LET stored == IF n < size THEN n ELSE size - 1
    IN  [len |-> stored, term |-> TRUE, bytes |-> stored + 1]

\* strncpy( dst, src, n ) of a string of src_len characters: exactly n bytes
\* are written, the characters and then NULs if there are fewer than n
strncpy(src_len, n) ==
    [len |-> IF src_len < n THEN src_len ELSE n, term |-> src_len < n, bytes |-> n]

\* the building of one MqttMessage by gps_task or lora_task, for decoded
\* values whose complete JSON text is n characters long: 30 (GPS) or 118
\* (radio) characters of the format itself and the digits of its 4 or 15
\* fields, from the shortest encoding over the lengths around the buffer
\* size to the longest (-1.7e308 for a double, -3.4e38 for a float)
PayloadCalls ==
    { [fn |-> "gps_message", done |-> FALSE, r |-> 0, n |-> 30 + w] :
        w \in (20..30) \cup (90..105) \cup {957} }
    \cup
    { [fn |-> "lora_message", done |-> FALSE, r |-> 0, n |-> 118 + w] :
        w \in (70..80) \cup (255..275) \cup {1061} }

\* gps_task: snprintf into json, then strncpy of the topic and of json into
\* the message; lora_task: strncpy of the topic, snprintf into the payload
ReturnPayload ==
    /\ call.fn \in {"gps_message", "lora_message"}
    /\ ~call.done
    /\ call' =
          IF call.fn = "gps_message"
          THEN LET json == snprintf(call.n, JSON_SIZE)
               IN  [fn |-> call.fn, done |-> TRUE, r |-> 0, n |-> call.n,
                    json |-> json,
                    topic |-> strncpy(10, TOPIC_SIZE - 1),
                    payload |-> strncpy(json.len, PAYLOAD_SIZE - 1)]
          ELSE [fn |-> call.fn, done |-> TRUE, r |-> 0, n |-> call.n,
                json |-> snprintf(0, JSON_SIZE),
                topic |-> strncpy(11, TOPIC_SIZE),
                payload |-> snprintf(call.n, PAYLOAD_SIZE)]
    /\ UNCHANGED <<netVars, mqttVars, g_mqtt_queue, g_log_queue, locVars, loraVars,
                   gpsVars, tick, servoVars, usbVars, qHist, pubHist, logHist,
                   locHist, gpsHist, dropped, rx, core_of>>

\* ---- usb_task and log_print (Tasks/USB/usb_task.cpp) ---------------------
\* xQueueReceive( g_log_queue, &msg, 10 ms ) returns a record; a timeout on
\* the empty queue changes nothing
UsbReceive ==
    /\ usb_pc = "wait"
    /\ g_log_queue # <<>>
    /\ g_log_queue' = Tail(g_log_queue)
    /\ log_out' = [rec |-> Head(g_log_queue), shown |-> s_log_enabled]
    /\ log_taken' = TRUE
    /\ usb_pc' = "drain"
    /\ UNCHANGED <<netVars, mqttVars, g_mqtt_queue, locVars, loraVars, gpsVars,
                   tick, servoVars, s_log_enabled, qHist, pubHist, log_calls,
                   log_dropped, locHist, gpsHist, call, dropped, rx, core_of>>

\* mutant: the drain loop prints every record, muted or not
UsbDrain_PrintsMuted ==
    /\ usb_pc = "drain"
    /\ IF g_log_queue # <<>>
       THEN /\ g_log_queue' = Tail(g_log_queue)
            /\ log_out' = [rec |-> Head(g_log_queue), shown |-> TRUE]
            /\ UNCHANGED usb_pc
       ELSE /\ usb_pc' = "wait"
            /\ UNCHANGED <<g_log_queue, log_out>>
    /\ UNCHANGED <<netVars, mqttVars, g_mqtt_queue, locVars, loraVars, gpsVars,
                   tick, servoVars, s_log_enabled, qHist, pubHist, log_calls,
                   log_dropped, log_taken, locHist, gpsHist, call, dropped, rx,
                   core_of>>

\* while ( xQueueReceive( g_log_queue, &msg, 0 ) == pdTRUE )
\*     if ( s_log_enabled ) printf( ... )
UsbDrain ==
    /\ usb_pc = "drain"
    /\ IF g_log_queue # <<>>
       THEN /\ g_log_queue' = Tail(g_log_queue)
            /\ log_out' = [rec |-> Head(g_log_queue), shown |-> s_log_enabled]
            /\ UNCHANGED usb_pc
       ELSE /\ usb_pc' = "wait"
            /\ UNCHANGED <<g_log_queue, log_out>>
    /\ UNCHANGED <<netVars, mqttVars, g_mqtt_queue, locVars, loraVars, gpsVars,
                   tick, servoVars, s_log_enabled, qHist, pubHist, log_calls,
                   log_dropped, log_taken, locHist, gpsHist, call, dropped, rx,
                   core_of>>

\* dispatch of the console command "log", "log on" or "log off"
UsbLogCommand ==
    /\ usb_pc = "wait"
    /\ \E arg \in {"on", "off", ""} :
         s_log_enabled' = IF arg = "on" THEN TRUE
                          ELSE IF arg = "off" THEN FALSE
                          ELSE ~s_log_enabled
    /\ UNCHANGED <<netVars, mqttVars, g_mqtt_queue, g_log_queue, locVars, loraVars,
                   gpsVars, tick, servoVars, usb_pc, qHist, pubHist, logHist, locHist, gpsHist, call, dropped, rx, core_of>>

\* some task calls log_print; the records of these calls are numbered
LogPrintCall ==
    /\ log_calls < MaxLogCalls
    /\ g_log_queue' = log_print(g_log_queue, [kind |-> "call", n |-> log_calls + 1])
    /\ log_calls' = log_calls + 1
    /\ log_dropped' = IF Len(g_log_queue) < LOG_QUEUE_DEPTH THEN log_dropped
                      ELSE log_dropped \cup {log_calls + 1}
    /\ UNCHANGED <<netVars, mqttVars, g_mqtt_queue, locVars, loraVars, gpsVars,
                   tick, servoVars, usbVars, qHist, pubHist, log_taken, log_out, locHist,
                   gpsHist, call, dropped, rx, core_of>>

\* ---- the lwIP lock (cyw43_arch_lwip_begin / cyw43_arch_lwip_end) ----------
\* wifi_task and mqtt_task once more, in steps that end at each lock
\* operation: a task waits in cyw43_arch_lwip_begin until the lock is free.

\* cyw43_arch_wifi_connect_timeout_ms returned: log and the 5 s delay, or on
\* to the read of the address
WifiJoinTry ==
    /\ wifi_pc = "join"
    /\ \E err \in {0, -1} :
         IF err # 0
         THEN /\ g_log_queue' = log_print(g_log_queue, Rec("wifi_connect_failed"))
              /\ wifi_pc' = "connect"
         ELSE /\ wifi_pc' = "ip_begin"
              /\ UNCHANGED g_log_queue
    /\ UNCHANGED <<net_events, lwip_owner, mqttVars, g_mqtt_queue, locVars, loraVars,
                   gpsVars, tick, servoVars, usbVars, qHist, pubHist, logHist,
                   locHist, gpsHist, call, dropped, rx, core_of>>

\* cyw43_arch_lwip_begin() at line 34 or 45 returns
WifiLwipBegin ==
    /\ wifi_pc \in {"ip_begin", "link_begin"}
    /\ lwip_owner = "none"
    /\ lwip_owner' = "wifi"
    /\ wifi_pc' = IF wifi_pc = "ip_begin" THEN "ip" ELSE "link"
    /\ UNCHANGED <<net_events, mqttVars, g_mqtt_queue, g_log_queue, locVars, loraVars,
                   gpsVars, tick, servoVars, usbVars, qHist, pubHist, logHist,
                   locHist, gpsHist, call, dropped, rx, core_of>>

\* mutant: the monitor loop leaves its critical section without
\* cyw43_arch_lwip_end when it finds the link down
WifiLwipEnd_BreaksLocked ==
    /\ wifi_pc \in {"ip", "link"}
    /\ lwip_owner = "wifi"
    /\ IF wifi_pc = "ip"
       THEN /\ wifi_pc' = "up_log"
            /\ lwip_owner' = "none"
       ELSE \E up \in BOOLEAN :
              /\ wifi_pc' = IF up THEN "monitor" ELSE "lost"
              /\ lwip_owner' = IF up THEN "none" ELSE "wifi"
    /\ UNCHANGED <<net_events, mqttVars, g_mqtt_queue, g_log_queue, locVars, loraVars,
                   gpsVars, tick, servoVars, usbVars, qHist, pubHist, logHist,
                   locHist, gpsHist, call, dropped, rx, core_of>>

\* the body of a critical section of wifi_task (ip4addr_ntoa, or
\* netif_is_link_up) and cyw43_arch_lwip_end()
WifiLwipEnd ==
    /\ wifi_pc \in {"ip", "link"}
    /\ lwip_owner = "wifi"
    /\ lwip_owner' = "none"
    /\ IF wifi_pc = "ip"
       THEN wifi_pc' = "up_log"
       ELSE \E up \in BOOLEAN : wifi_pc' = IF up THEN "monitor" ELSE "lost"
    /\ UNCHANGED <<net_events, mqttVars, g_mqtt_queue, g_log_queue, locVars, loraVars,
                   gpsVars, tick, servoVars, usbVars, qHist, pubHist, logHist,
                   locHist, gpsHist, call, dropped, rx, core_of>>

\* log_print( "[wifi] connected ..." ) and xEventGroupSetBits
WifiUpLog ==
    /\ wifi_pc = "up_log"
    /\ g_log_queue' = log_print(g_log_queue, Rec("wifi_connected"))
    /\ net_events' = TRUE
    /\ wifi_pc' = "monitor"
    /\ UNCHANGED <<lwip_owner, mqttVars, g_mqtt_queue, locVars, loraVars, gpsVars,
                   tick, servoVars, usbVars, qHist, pubHist, logHist, locHist,
                   gpsHist, call, dropped, rx, core_of>>

\* the end of the 3 s delay of the monitor loop
WifiMonitorDelay ==
    /\ wifi_pc = "monitor"
    /\ wifi_pc' = "link_begin"
    /\ UNCHANGED <<net_events, lwip_owner, mqttVars, g_mqtt_queue, g_log_queue,
                   locVars, loraVars, gpsVars, tick, servoVars, usbVars, qHist,
                   pubHist, logHist, locHist, gpsHist, call, dropped, rx, core_of>>

\* if ( !up ): log_print, xEventGroupClearBits, break and the 1 s delay
WifiLost ==
    /\ wifi_pc = "lost"
    /\ g_log_queue' = log_print(g_log_queue, Rec("wifi_link_lost"))
    /\ net_events' = FALSE
    /\ wifi_pc' = "connect"
    /\ UNCHANGED <<lwip_owner, mqttVars, g_mqtt_queue, locVars, loraVars, gpsVars,
                   tick, servoVars, usbVars, qHist, pubHist, logHist, locHist,
                   gpsHist, call, dropped, rx, core_of>>

\* cyw43_arch_lwip_begin() in broker_connect or before mqtt_publish returns
MqttLwipBegin ==
    /\ mqtt_pc \in {"connect", "publish"}
    /\ lwip_owner = "none"
    /\ lwip_owner' = "mqtt"
    /\ mqtt_pc' = IF mqtt_pc = "connect" THEN "connect_locked" ELSE "publish_locked"
    /\ UNCHANGED <<net_events, wifi_pc, s_mqtt, s_mqtt_connected, msg, g_mqtt_queue,
                   g_log_queue, locVars, loraVars, gpsVars, tick, servoVars,
                   usbVars, qHist, pubHist, logHist, locHist, gpsHist, call,
                   dropped, rx, core_of>>

\* mqtt_client_new on first use, mqtt_client_connect and
\* cyw43_arch_lwip_end()
MqttConnectEnd ==
    /\ mqtt_pc = "connect_locked"
    /\ lwip_owner = "mqtt"
    /\ lwip_owner' = "none"
    /\ \E err \in {0, -1} :
         /\ (s_mqtt \in {"connecting", "connected"}) => (err # 0)
         /\ IF err # 0
            THEN /\ s_mqtt' = IF s_mqtt = "null" THEN "closed" ELSE s_mqtt
                 /\ mqtt_pc' = "connect_failed"
            ELSE /\ s_mqtt' = "connecting"
                 /\ mqtt_pc' = "grace"
    /\ UNCHANGED <<net_events, wifi_pc, s_mqtt_connected, msg, g_mqtt_queue,
                   g_log_queue, locVars, loraVars, gpsVars, tick, servoVars,
                   usbVars, qHist, pubHist, logHist, locHist, gpsHist, call,
                   dropped, rx, core_of>>

\* if ( err != ERR_OK ): log_print( "[mqtt] connect error" ), return false
MqttConnectFailed ==
    /\ mqtt_pc = "connect_failed"
    /\ g_log_queue' = log_print(g_log_queue, Rec("mqtt_connect_error"))
    /\ mqtt_pc' = "delay_err"
    /\ UNCHANGED <<netVars, s_mqtt, s_mqtt_connected, msg, g_mqtt_queue, locVars,
                   loraVars, gpsVars, tick, servoVars, usbVars, qHist, pubHist,
                   logHist, locHist, gpsHist, call, dropped, rx, core_of>>

\* mqtt_publish( ... ) and cyw43_arch_lwip_end()
MqttPublishEnd ==
    /\ mqtt_pc = "publish_locked"
    /\ lwip_owner = "mqtt"
    /\ lwip_owner' = "none"
    /\ published' = Append(published, msg)
    /\ msg' = NoMsg
    /\ mqtt_pc' = "drain_test"
    /\ pub_since_clear' = CountWhileClear(pub_since_clear)
    /\ UNCHANGED <<net_events, wifi_pc, s_mqtt, s_mqtt_connected, g_mqtt_queue,
                   g_log_queue, locVars, loraVars, gpsVars, tick, servoVars,
                   usbVars, qHist, seen_connected, deq_since_clear, logHist,
                   locHist, gpsHist, call, dropped, rx, core_of>>

\* ---- task creation (the *_task_init functions) and the SMP scheduler -----
\* xTaskCreateStatic leaves the new task free to run on every core
\* (tskNO_AFFINITY); wifi_task_init, mqtt_task_init, gps_task_init and
\* servo_task_init do nothing else
xTaskCreateStatic == Cores

\* vTaskCoreAffinitySet( handle, mask ): the cores whose bit is set in mask
vTaskCoreAffinitySet(mask) == {c \in Cores : (mask \div (2 ^ c)) % 2 = 1}

\* mutant: the radio task is created and left without an affinity
lora_task_init_NoAffinity == xTaskCreateStatic

\* vTaskCoreAffinitySet( lora_handle, ( 1u << 0 ) )
lora_task_init == vTaskCoreAffinitySet(1)

\* vTaskCoreAffinitySet( h, 0x01 )
usb_task_init == vTaskCoreAffinitySet(1)

\* the cores each task may run on once main() has created the tasks
CoreAffinity ==
    [t \in Tasks |->
        CASE t = "lora" -> lora_task_init
          [] t = "usb" -> usb_task_init
          [] OTHER -> xTaskCreateStatic]

\* the scheduler runs task t on core c, where it did not run before
MigrateTo(t, c) ==
    /\ c \in CoreAffinity[t]
    /\ c # core_of[t]
    /\ core_of' = [core_of EXCEPT ![t] = c]
    /\ UNCHANGED <<netVars, mqttVars, g_mqtt_queue, g_log_queue, locVars, loraVars,
                   gpsVars, tick, servoVars, usbVars, qHist, pubHist, logHist,
                   locHist, gpsHist, call, dropped, rx>>

Migrate == \E t \in Tasks, c \in Cores : MigrateTo(t, c)

\* ---- specifications ------------------------------------------------------
WifiNext == WifiInit \/ WifiConnect \/ WifiJoin \/ WifiLinkLost
MqttNext == MqttWaitBits \/ MqttConnect \/ MqttRetryDelay \/ MqttGrace
            \/ MqttDrainTest \/ MqttReceive \/ MqttPublish
LoraNext == LoraBegin \/ LoraHeader \/ LoraPoll \/ LoraDecode \/ LoraPublish
            \/ LoraLocate
GpsNext == GpsUart \/ GpsPoll \/ GpsSend
ServoNext == ServoPeekGs \/ ServoPeekRkt \/ ServoDrive

\* Every specification but LogSpec starts with the log queue full or a few
\* records short of full: the console task, the lowest priority, has not run,
\* and the log_print calls of the other tasks soon drop their records.

\* the publish pipeline with the GPS task as producer
PubInit == Boot(Backlog(LOG_QUEUE_DEPTH), FALSE, FALSE)
PubNext == WifiNext \/ ConnectionCb \/ MqttNext \/ GpsNext \/ Tick
PubSpec == PubInit /\ [][PubNext]_vars

\* one connected session with both producers
SessionInit == Boot(Backlog(LOG_QUEUE_DEPTH), TRUE, TRUE)
SessionNext == ConnectionCb \/ MqttNext \/ GpsPoll \/ GpsSend \/ Tick
               \/ LoraPoll \/ LoraDecode \/ LoraPublish \/ LoraLocate
SessionSpec == SessionInit /\ [][SessionNext]_vars

\* the location slots: the two writers and the servo task
LocInit == Boot(Backlog(LOG_QUEUE_DEPTH), FALSE, FALSE)
LocNext == LoraNext \/ GpsNext \/ Tick \/ ServoNext
LocSpec == LocInit /\ [][LocNext]_vars

\* the radio task with the publisher, from a connected session and with one
\* free slot in the log queue
RadioInit == Boot(Backlog(LOG_QUEUE_DEPTH - 1), FALSE, TRUE)
RadioNext == WifiConnect \/ WifiJoin \/ WifiLinkLost \/ ConnectionCb \/ MqttNext
             \/ LoraPoll \/ LoraDecode \/ LoraPublish \/ LoraLocate
RadioSpec == RadioInit /\ [][RadioNext]_vars

\* the publish pipeline under fair scheduling: every task that can run does
\* run; the callback and the loss of the link are events of the environment
\* and are not forced (here the link, once up, stays up)
WifiUp == WifiInit \/ WifiConnect \/ WifiJoin
FairNext == WifiUp \/ ConnectionCb \/ MqttNext \/ GpsNext \/ Tick
FairSpec ==
    /\ PubInit /\ [][FairNext]_vars
    /\ WF_vars(WifiUp) /\ WF_vars(MqttNext) /\ WF_vars(GpsNext) /\ WF_vars(Tick)

\* the GPS task alone, with four free slots in the log queue and nobody
\* taking messages from g_mqtt_queue
GpsInit == Boot(Backlog(LOG_QUEUE_DEPTH - 4), FALSE, FALSE)
GpsOnlyNext == GpsNext \/ Tick
GpsSpec == GpsInit /\ [][GpsOnlyNext]_vars

\* the helpers of servo_task and the message building of the two producers,
\* each called once with arguments of its domain
MathInit ==
    \E c \in NormalizeCalls \cup AngleCalls \cup PayloadCalls :
        BootWith(Backlog(LOG_QUEUE_DEPTH), FALSE, FALSE, c)
MathNext == ReturnNormalize \/ ReturnAngleToCounts \/ ReturnPayload
MathSpec == MathInit /\ [][MathNext]_vars

\* the radio task alone from its bring-up, with four free slots in the log
\* queue
LoraInit == Boot(Backlog(LOG_QUEUE_DEPTH - 4), FALSE, FALSE)
LoraOnlyNext == LoraNext \/ Tick
LoraSpec == LoraInit /\ [][LoraOnlyNext]_vars

\* the publish pipeline under fair scheduling together with the radio task's
\* bring-up
HaltNext == LoraBegin \/ FairNext
HaltSpec ==
    /\ PubInit /\ [][HaltNext]_vars
    /\ WF_vars(LoraBegin) /\ WF_vars(WifiUp) /\ WF_vars(MqttNext)
    /\ WF_vars(GpsNext) /\ WF_vars(Tick)

\* the log queue alone: producers calling log_print, the console task
LogNext == LogPrintCall \/ UsbReceive \/ UsbDrain \/ UsbLogCommand
LogSpec == Init /\ [][LogNext]_vars

\* n messages of the GPS task standing in g_mqtt_queue, accepted before the
\* start state (their ranks are at or below zero)
Queued(n) ==
    LET c0 == CHOOSE c \in Coordinates : c.satellites = 8 IN
    [i \in 1..n |-> [topic |-> GpsMessage(c0).topic,
                     payload |-> GpsMessage(c0).payload, seq |-> i - n]]

\* a connected session that starts with g_mqtt_queue full: the GPS task has
\* filled it while the broker was away, the publisher is at the top of its
\* drain loop, and both producers go on
FullInit ==
    BootAll(Backlog(LOG_QUEUE_DEPTH), TRUE, TRUE, NoCall, Queued(MQTT_QUEUE_DEPTH),
            "begin")
FullNext == MqttDrainTest \/ MqttReceive \/ MqttPublish \/ GpsPoll \/ GpsSend
            \/ Tick \/ LoraPoll \/ LoraDecode \/ LoraPublish \/ LoraLocate
FullSpec == FullInit /\ [][FullNext]_vars

\* the scheduler moving the tasks between the cores while the GPS task runs
SchedNext == Migrate \/ GpsNext \/ Tick
SchedSpec == GpsInit /\ [][SchedNext]_vars

\* the radio task alone from the end of its countdown, idle polls included,
\* with six free slots in the log queue
BringupInit ==
    BootAll(Backlog(LOG_QUEUE_DEPTH - 6), FALSE, FALSE, NoCall, <<>>, "diag")
BringupNext == LoraDiag \/ LoraNext \/ LoraIdle \/ Tick
BringupSpec == BringupInit /\ [][BringupNext]_vars

\* the antenna tracking: the radio task from its bring-up, receiving also a
\* frame with a NaN coordinate, and the servo task; the GPS task has written
\* its slot
TrackNext == LoraBegin \/ LoraHeader \/ LoraPollFrom(Packets \cup {PacketN})
             \/ LoraDecode \/ LoraPublish \/ LoraLocate \/ ServoNext
TrackSpec == Boot(Backlog(LOG_QUEUE_DEPTH), TRUE, FALSE) /\ [][TrackNext]_vars

\* the GPS task alone with the UART delivering single bytes, with four free
\* slots in the log queue, within the first publish interval (the tick count
\* stands still)
NmeaNext == GpsGetc \/ GpsEcho \/ GpsPoll
NmeaSpec == GpsInit /\ [][NmeaNext]_vars

\* the log queue with a console task that runs whenever it can; the calls of
\* log_print and the operator's commands come when they come
LogFairSpec == LogSpec /\ WF_vars(UsbReceive) /\ WF_vars(UsbDrain)

\* the two users of the lwIP lock in steps that end at each lock operation,
\* from a connected session with two messages queued; lwIP runs the callback
\* while no task is inside the lock
LockNext == WifiConnect \/ WifiJoinTry \/ WifiLwipBegin \/ WifiLwipEnd \/ WifiUpLog
            \/ WifiMonitorDelay \/ WifiLost \/ (lwip_owner = "none" /\ ConnectionCb)
            \/ MqttWaitBits \/ MqttLwipBegin \/ MqttConnectEnd \/ MqttConnectFailed
            \/ MqttRetryDelay \/ MqttGrace \/ MqttDrainTest \/ MqttReceive
            \/ MqttPublishEnd
LockSpec ==
    /\ BootAll(Backlog(LOG_QUEUE_DEPTH - 2), TRUE, TRUE, NoCall, Queued(2), "begin")
    /\ [][LockNext]_vars

\* LockSpec with the hold of the lock finite: a task inside a critical
\* section is scheduled until it reaches cyw43_arch_lwip_end
LockFairSpec ==
    LockSpec /\ WF_vars(WifiLwipEnd) /\ WF_vars(MqttConnectEnd) /\ WF_vars(MqttPublishEnd)

\* ---- claims --------------------------------------------------------------

\* a step of the servo task that leaves the peek of the ground slot
PeekGsStep == servo_pc = "peek_gs" /\ servo_pc' # servo_pc
\* a step of the servo task that leaves the peek of the rocket slot
PeekRktStep == servo_pc = "peek_rkt" /\ servo_pc' # servo_pc

\* C1: under every interleaving of the writers' xQueueOverwrite with the servo
\* task's zero-timeout xQueuePeek, a peek of either slot returns the value of
\* the most recently completed overwrite, or reports absence (the local copy
\* and its have flag stay as they were) when nothing has been written; the
\* peek leaves the slot as it is, and it is always able to return.
C1_PeekReturnsLatest ==
    /\ [](  /\ (servo_pc = "peek_gs" => ENABLED ServoPeekGs)
            /\ (servo_pc = "peek_rkt" => ENABLED ServoPeekRkt))
    /\ [][  /\ PeekGsStep =>
                /\ g_gs_location_q' = g_gs_location_q
                /\ IF wrote_gs = <<>>
                   THEN gs' = gs /\ have_gs' = have_gs
                   ELSE gs' = wrote_gs[1] /\ have_gs'
            /\ PeekRktStep =>
                /\ g_rocket_location_q' = g_rocket_location_q
                /\ IF wrote_rkt = <<>>
                   THEN rkt' = rkt /\ have_rkt' = have_rkt
                   ELSE rkt' = wrote_rkt[1] /\ have_rkt'
         ]_vars

\* C1 witness: the servo task has peeked both slots after each was overwritten
\* with a second, different value, and one peek before found the rocket slot
\* empty
C1_Witness ==
    /\ servo_pc = "drive"
    /\ have_gs /\ gs.lat = 38
    /\ have_rkt /\ rkt.lat = 36
    /\ wrote_gs = <<gs>> /\ wrote_rkt = <<rkt>>

\* a step of the radio task that handles a packet whose frame check failed
BadFrameStep ==
    lora_pc = "decode" /\ lora_pc' # lora_pc /\ pkt.read_ok /\ ~pkt.frame_ok

\* C2: a packet whose SIGMA check fails never overwrites the remote
\* LocationSample and never enqueues an OutboundMessage; its one effect is one
\* log_print of a record carrying byte count, RSSI and SNR (queued if the log
\* queue has room), after which the task is back at polling.
C2_BadFrameOnlyLogs ==
    [][ BadFrameStep =>
          /\ g_rocket_location_q' = g_rocket_location_q
          /\ g_mqtt_queue' = g_mqtt_queue
          /\ accepted' = accepted
          /\ g_log_queue' =
                IF Len(g_log_queue) < LOG_QUEUE_DEPTH
                THEN Append(g_log_queue,
                            [kind |-> "lora_bad_frame", n |-> 0, len |-> pkt.len,
                             rssi |-> pkt.rssi, snr |-> pkt.snr])
                ELSE g_log_queue
          /\ lora_pc' = "poll"
      ]_vars

\* C2 witness: the record of a bad frame is in the log queue, written while
\* the publisher was connected, and the radio task is polling again
C2_Witness ==
    /\ lora_pc = "poll"
    /\ s_mqtt_connected
    /\ Len(g_log_queue) = LOG_QUEUE_DEPTH
    /\ g_log_queue[LOG_QUEUE_DEPTH].kind = "lora_bad_frame"
    /\ g_log_queue[LOG_QUEUE_DEPTH].len = 12
    /\ accepted = <<>>
    /\ g_rocket_location_q = <<>>

\* a step of the radio task that passes the publish block for a decoded frame
LoraPubStep == lora_pc = "pub" /\ lora_pc' # lora_pc

\* C3 (as claimed): every decoded frame leads to one xQueueSend of a
\* rocket/lora message carrying the decoded fields, whatever the readiness flag
\* and ConnectionState are: the message is appended, or the queue is full.
C3_AlwaysEnqueues ==
    [][ LoraPubStep =>
          \/ /\ Len(g_mqtt_queue) = MQTT_QUEUE_DEPTH
             /\ g_mqtt_queue' = g_mqtt_queue
          \/ /\ Len(g_mqtt_queue') = Len(g_mqtt_queue) + 1
             /\ g_mqtt_queue'[Len(g_mqtt_queue')].topic = "rocket/lora"
             /\ g_mqtt_queue'[Len(g_mqtt_queue')].payload.lat = pkt.d.lat
      ]_vars

\* a step of the radio task that ends the handling of a decoded frame
LoraLocStep == lora_pc = "loc" /\ lora_pc' # lora_pc

\* C4: after a decoded frame is processed the remote LocationSample is that
\* frame's (latitude, longitude, GPS altitude) if its coordinates-valid flag is
\* set and is unchanged if the flag is clear; nothing else writes the slot.
C4_RemoteSlotFromValidFrame ==
    [][ /\ LoraLocStep =>
            g_rocket_location_q' =
                IF "GPS_VALID" \in pkt.d.flags
                THEN <<[lat |-> pkt.d.lat, lon |-> pkt.d.lon,
                        alt_m |-> pkt.d.alt_gps_m]>>
                ELSE g_rocket_location_q
        /\ (g_rocket_location_q' # g_rocket_location_q) =>
            (LoraLocStep /\ pkt.frame_ok /\ "GPS_VALID" \in pkt.d.flags)
      ]_vars

\* C4 witness: the slot holds (34, -118, 1500) of a valid frame and a frame
\* with the flag clear has been processed since without changing it
C4_Witness ==
    /\ g_rocket_location_q = <<[lat |-> 34, lon |-> -118, alt_m |-> 1500]>>
    /\ lora_pc = "poll"
    /\ Len(accepted) >= 1
    /\ accepted[Len(accepted)].topic = "rocket/lora"
    /\ accepted[Len(accepted)].payload.lat = 35

\* the messages the publisher has taken from the queue and not yet published
InHand == IF msg = NoMsg THEN <<>> ELSE <<msg>>

\* C5: while the publisher task has not yet read ConnectionState as true
\* (handshake timeouts included), it performs no dequeue from the outbound
\* queue and no publish call: everything accepted is still queued, nothing is
\* in hand or published, and the task is outside the drain loop's body.
C5_NothingBeforeObservedTrue ==
    ~seen_connected =>
        /\ published = <<>>
        /\ msg = NoMsg
        /\ g_mqtt_queue = accepted
        /\ mqtt_pc \notin {"recv", "publish"}

\* C5 witness: a handshake timeout has been taken with messages queued, and
\* nothing has been dequeued or published
C5_Witness ==
    /\ ~seen_connected
    /\ mqtt_pc = "delay_hs"
    /\ Len(g_mqtt_queue) = 2
    /\ published = <<>>

\* message number i has been handed to mqtt_publish
Delivered(i) == \E k \in 1..Len(published) : published[k].seq = i

\* the published messages are in the order of their acceptance
PublishedInOrder ==
    \A j, k \in 1..Len(published) :
        j < k => published[j].seq < published[k].seq

\* C6 (as claimed): every message enqueued while the publisher is
\* disconnected is, once ConnectionState becomes true and stays true,
\* eventually handed to the transport, and the messages are published in
\* their enqueue order.
C6_WaitingEventuallyPublished ==
    /\ []PublishedInOrder
    /\ \A i \in 1..MaxMsgs :
          (<>[]s_mqtt_connected) => [](i \in waiting => <>Delivered(i))

\* C7: with the GPS task and the radio task both enqueuing, the messages
\* handed to mqtt_publish, followed by the one in hand and those still
\* queued, are exactly the accepted messages in the order of acceptance: no
\* reordering, no skipping.
C7_StrictFifo ==
    accepted = published \o InHand \o g_mqtt_queue

\* C7 witness: in a connected session a message of each producer has been
\* accepted and both have been published
C7_Witness ==
    /\ s_mqtt_connected
    /\ Len(published) = 2
    /\ published[1].topic # published[2].topic
    /\ published = accepted

\* the sequence numbers of a sequence of tagged messages
Seqs(s) == {s[k].seq : k \in 1..Len(s)}

\* C8: every accepted message is handed to mqtt_publish at most once over the
\* whole execution, disconnects and reconnects included: no two publish calls
\* carry the same message, and no published message is in hand or in the queue
\* again.
C8_AtMostOnce ==
    /\ \A j, k \in 1..Len(published) :
          j # k => published[j].seq # published[k].seq
    /\ Seqs(published) \cap Seqs(InHand \o g_mqtt_queue) = {}

\* C8 witness: a message accepted in a connected session and a message
\* accepted while disconnected have both been published and the publisher is
\* connected again
C8_Witness ==
    /\ Len(published) = 2
    /\ published[1].seq \notin waiting
    /\ published[2].seq \in waiting
    /\ s_mqtt_connected
    /\ mqtt_pc = "recv"

\* C9 (as claimed): once the callback has cleared the flag the publisher
\* dequeues no further message and makes no further publish call until a
\* later connection has succeeded.
C9_NoDrainWhileClear ==
    ~s_mqtt_connected => (deq_since_clear = 0 /\ pub_since_clear = 0)

\* C9 (amended): once the callback has cleared the flag the publisher
\* completes at most the one receive and the one publish of the loop
\* iteration it is in (at most one dequeue and one publish call) before it
\* reads the flag and leaves the loop; nothing more is dequeued or published
\* until a later connection has succeeded.
C9_AtMostOneInFlight ==
    ~s_mqtt_connected => (deq_since_clear <= 1 /\ pub_since_clear <= 1)

\* C9 witness: the flag was cleared while the task was blocked in its receive;
\* the message that arrived was dequeued and published, and the task has left
\* the loop
C9_Witness ==
    /\ ~s_mqtt_connected
    /\ deq_since_clear = 1
    /\ pub_since_clear = 1
    /\ mqtt_pc = "delay_lost"
    /\ g_mqtt_queue # <<>>

\* the record of the n-th numbered log_print call
CallRec(n) == [kind |-> "call", n |-> n]

\* C10: log_print never suspends its caller (a call can always complete); a
\* call on a full log queue leaves the queue as it is, and the discarded
\* record is never in the queue later; with no consumer running, after
\* LOG_QUEUE_DEPTH + 1 calls the queue holds exactly the first LOG_QUEUE_DEPTH
\* records and exactly the last one has been dropped.
C10_LogPrintDropsWhenFull ==
    /\ [](  /\ (log_calls < MaxLogCalls => ENABLED LogPrintCall)
            /\ \A k \in 1..Len(g_log_queue) : g_log_queue[k].n \notin log_dropped
            /\ (~log_taken /\ log_calls = LOG_QUEUE_DEPTH + 1) =>
                  /\ g_log_queue = [k \in 1..LOG_QUEUE_DEPTH |-> CallRec(k)]
                  /\ log_dropped = {LOG_QUEUE_DEPTH + 1})
    /\ [][ (log_calls' = log_calls + 1) =>
              g_log_queue' = IF Len(g_log_queue) < LOG_QUEUE_DEPTH
                             THEN Append(g_log_queue, CallRec(log_calls'))
                             ELSE g_log_queue
         ]_vars

\* C10 witness: no consumer has run, call number LOG_QUEUE_DEPTH + 1 has
\* returned and its record was dropped
C10_Witness ==
    /\ ~log_taken
    /\ log_calls = LOG_QUEUE_DEPTH + 1
    /\ Len(g_log_queue) = LOG_QUEUE_DEPTH
    /\ log_dropped = {LOG_QUEUE_DEPTH + 1}


\* the log record of a change of had_fix to the value f
FixRecord(f) == Rec(IF f THEN "gps_fix_acquired" ELSE "gps_fix_lost")

\* the fix-transition records standing in the log queue, in order
FixRecords ==
    SelectSeq(g_log_queue,
              LAMBDA r : r.kind \in {"gps_fix_acquired", "gps_fix_lost"})

\* a step of the GPS task past the fix test: the task is at its poll, and the
\* step is not a tick and not the arrival of a sentence
GpsPollStep ==
    /\ gps_pc = "poll"
    /\ tick' = tick
    /\ parser' = parser
    /\ g_log_queue' # Append(g_log_queue, Rec("gps_raw"))
    /\ <<had_fix, g_log_queue, g_gs_location_q, last_pub, gps_pc>>'
          # <<had_fix, g_log_queue, g_gs_location_q, last_pub, gps_pc>>

\* C11: a poll that finds the parser's fix state different from the one of
\* the previous poll makes exactly one log_print call, 'fix acquired' for
\* no-fix to fix and 'fix lost' for fix to no-fix, and records the new state;
\* a poll that finds the same fix state makes no such call, however many
\* polls there are; the transition records in the log therefore alternate,
\* starting with 'fix acquired'.
C11_OneLogPerFixTransition ==
    /\ [][ /\ (had_fix' # had_fix) =>
                (/\ gps_pc = "poll"
                 /\ had_fix' = parser.fix
                 /\ g_log_queue' = log_print(g_log_queue, FixRecord(had_fix')))
           /\ (GpsPollStep /\ parser.fix # had_fix) => (had_fix' = parser.fix)
           /\ (had_fix' = had_fix) => (FixRecords' = FixRecords)
         ]_vars
    /\ [](\A k \in 1..Len(FixRecords) :
              FixRecords[k] = FixRecord(k % 2 = 1))

\* C11 witness: a fix was acquired, held over a poll that published, and
\* lost; the log holds one record of each transition
C11_Witness ==
    /\ FixRecords = <<FixRecord(TRUE), FixRecord(FALSE)>>
    /\ ~had_fix
    /\ Len(accepted) = 1
    /\ Len(g_log_queue) = LOG_QUEUE_DEPTH

\* a poll of the GPS task that builds a message and goes on to xQueueSend
GpsAttemptStep == gps_pc = "poll" /\ gps_pc' = "send"

\* C12: every enqueue attempt of the GPS task is made on a poll that holds a
\* fix, carries the topic rocket/gps, and comes at least GPS_PUB_MS of tick
\* time after the previous one (or after boot), also when the tick counter
\* has wrapped in between.
C12_GpsRateLimit ==
    [][ GpsAttemptStep =>
          /\ parser.fix
          /\ gps_json'.topic = "rocket/gps"
          /\ since_pub * 1000 >= GPS_PUB_MS * TickRateHz
      ]_vars

\* C12 witness: a second attempt is under way, made after the tick counter
\* wrapped to a value below the stamp of the first
C12_Witness ==
    /\ gps_pc = "send"
    /\ Len(accepted) = 1
    /\ last_pub = 0
    /\ tick = 0
    /\ since_pub = 0

\* C13: the azimuth normalisation returns 360 - b, a value in [0, 180), for
\* every bearing b in (180, 360], and b itself for every b in [0, 180]; for
\* every b in [0, 360] the value passed to the azimuth mapping is in [0, 180].
C13_AzimuthNormalization ==
    (call.fn = "normalize" /\ call.done) =>
        /\ (180 < call.deg /\ call.deg <= 360) =>
              (call.r = 360 - call.deg /\ 0 <= call.r /\ call.r < 180)
        /\ (0 <= call.deg /\ call.deg <= 180) => (call.r = call.deg)
        /\ (0 <= call.deg /\ call.deg <= 360) => (0 <= call.r /\ call.r <= 180)

\* C13 witness: the bearing 200 has been normalised to 160
C13_Witness ==
    /\ call.fn = "normalize"
    /\ call.done
    /\ call.deg = 200
    /\ call.r = 160

\* C14: angle_to_counts returns PULSE_MIN for every angle at or below deg_min,
\* PULSE_MAX for every angle at or above deg_max and PULSE_CENTER at the
\* midpoint of the range, and no smaller angle gives a larger count, on both
\* axes ([0, 180] and [0, 90]).
C14_AngleToCounts ==
    (call.fn = "angle_to_counts" /\ call.done) =>
        /\ (call.deg <= call.deg_min) => (call.r = PULSE_MIN)
        /\ (call.deg >= call.deg_max) => (call.r = PULSE_MAX)
        /\ (2 * call.deg = call.deg_min + call.deg_max) => (call.r = PULSE_CENTER)
        /\ \A d \in (call.deg_min - AngleMargin)..call.deg :
              angle_to_counts(d, call.deg_min, call.deg_max) <= call.r
        /\ PULSE_MIN <= call.r /\ call.r <= PULSE_MAX

\* C14 witness: 200 degrees on the azimuth axis [0, 180] has given 2000
C14_Witness ==
    /\ call.fn = "angle_to_counts"
    /\ call.done
    /\ call.deg = 200
    /\ call.deg_max = 180
    /\ call.r = 2000

\* a step of the servo task that writes the two PWM levels of a control tick
ServoDriveStep == servo_pc = "drive" /\ servo_pc' # servo_pc

\* C15: on every control tick at which one of the two LocationSamples has
\* never been written, and on every tick at which one has not yet been
\* observed present, the servo task sets both channels to PULSE_CENTER;
\* levels computed from a bearing and an elevation are written only on ticks
\* where both samples have been observed present, and only the servo task's
\* drive step changes the levels.
C15_FailSafeCentre ==
    [][ /\ (ServoDriveStep /\ (wrote_gs = <<>> \/ wrote_rkt = <<>>)) =>
              (pwm' = <<PULSE_CENTER, PULSE_CENTER>>)
        /\ (ServoDriveStep /\ ~(have_gs /\ have_rkt)) =>
              (pwm' = <<PULSE_CENTER, PULSE_CENTER>>)
        /\ (ServoDriveStep /\ pwm' # <<PULSE_CENTER, PULSE_CENTER>>) =>
              (have_gs /\ have_rkt)
        /\ (pwm' # pwm) => ServoDriveStep
      ]_vars

\* C15 witness: a control tick has held the centre with the local sample
\* observed present and the remote one never written
C15_Witness ==
    /\ servo_pc = "peek_gs"
    /\ have_gs /\ ~have_rkt
    /\ wrote_gs # <<>> /\ wrote_rkt = <<>>
    /\ pwm = <<PULSE_CENTER, PULSE_CENTER>>
    /\ gs.lat = 37

\* the records of a failed radio bring-up standing in the log queue
InitFailedRecords ==
    SelectSeq(g_log_queue, LAMBDA r : r.kind = "lora_init_failed")

\* C16: if s_radio.begin returns an error the radio task makes one log_print
\* call for the failure and parks: the parked state is entered only from the
\* bring-up, is never left, and in it no step of the radio task is possible,
\* so that it never polls the radio, never writes the remote LocationSample,
\* never enqueues a message or a log record and never listens.
C16_RadioParksOnInitFailure ==
    /\ [][ /\ (lora_pc # "halted" /\ lora_pc' = "halted") =>
                 /\ lora_pc = "begin"
                 /\ g_log_queue' = log_print(g_log_queue, Rec("lora_init_failed"))
           /\ (lora_pc = "halted") =>
                 /\ lora_pc' = "halted"
                 /\ UNCHANGED <<pkt, g_rocket_location_q, g_mqtt_queue, g_log_queue>>
        ]_vars
    /\ [](  /\ (lora_pc = "halted" => ~ENABLED LoraNext)
            /\ Len(InitFailedRecords) <= 1
            /\ (Len(InitFailedRecords) = 1 <=> lora_pc = "halted"))

\* C16 witness: the radio task is parked, its one failure record is queued
\* and time has gone by
C16_Witness ==
    /\ lora_pc = "halted"
    /\ Len(g_log_queue) = LOG_QUEUE_DEPTH - 3
    /\ g_log_queue[LOG_QUEUE_DEPTH - 3] = Rec("lora_init_failed")
    /\ tick = 1
    /\ g_rocket_location_q = <<>>

\* with the radio task parked, the GPS task still takes its steps: a poll
\* with a fix can write the local slot and a built message can be enqueued
GpsGoesOnAfterPark ==
    lora_pc = "halted" =>
        /\ (gps_pc = "poll" /\ parser.fix /\ g_gs_location_q # <<GpsLocation(parser.coord)>>)
              => ENABLED (GpsPoll /\ g_gs_location_q' = <<GpsLocation(parser.coord)>>)
        /\ (gps_pc = "send" /\ Len(accepted) < MaxMsgs) => ENABLED GpsSend

\* C17 (as claimed): after the radio task has parked, the other tasks keep
\* making progress under fair scheduling: a GPS fix still updates the local
\* LocationSample, GPS messages are still enqueued, and every queued message
\* is eventually published once the link and the broker are up (ConnectionState
\* becomes true and stays true).
C17_OthersProgressAfterPark ==
    /\ []GpsGoesOnAfterPark
    /\ \A i \in 1..MaxMsgs :
          (<>[]s_mqtt_connected) =>
              []((lora_pc = "halted" /\ i \in Seqs(g_mqtt_queue)) => <>Delivered(i))

\* the GPS, servo, publisher and console tasks are inside their loops and
\* each has a step to take, or (the publisher) waits for the link bit
LoopsGoOn ==
    /\ gps_pc \in {"poll", "send"}
    /\ (Len(accepted) < MaxMsgs) => ENABLED GpsNext
    /\ servo_pc \in {"peek_gs", "peek_rkt", "drive"}
    /\ ENABLED ServoNext
    /\ mqtt_pc \in {"wait_wifi", "connect", "grace", "delay_err", "delay_hs",
                    "delay_lost", "drain_test", "recv", "publish"}
    /\ ENABLED MqttNext \/ (mqtt_pc = "wait_wifi" /\ ~net_events)
    /\ usb_pc \in {"wait", "drain"}
    /\ ENABLED (UsbReceive \/ UsbDrain \/ UsbLogCommand)

CallbackStep == s_mqtt \in {"connecting", "connected"} /\ s_mqtt' # s_mqtt

\* C19: a run of connection_cb stores to ConnectionState, true iff the status
\* is 'accepted' (the client is then connected) and false for every other
\* status, and does nothing else: the outbound queue, the log queue, both
\* location slots and the readiness flag are unchanged, nothing is sent to a
\* queue, and the publisher task stays where it is.
C19_CallbackOnlyStoresFlag ==
    /\ [][ CallbackStep =>
              /\ s_mqtt_connected' = (s_mqtt' = "connected")
              /\ UNCHANGED <<g_mqtt_queue, g_log_queue, g_gs_location_q,
                             g_rocket_location_q, net_events, accepted, published,
                             mqtt_pc, msg>>
         ]_vars
    /\ [](\A status \in ConnStatus :
              connection_cb(status) = (status = "ACCEPTED"))

\* C19 witness: the callback has cleared the flag with a message queued and
\* the publisher blocked in its receive
C19_Witness ==
    /\ ~s_mqtt_connected
    /\ s_mqtt = "closed"
    /\ Len(g_mqtt_queue) = 1
    /\ mqtt_pc = "recv"

\* C20 (as claimed): ConnectionState is written only by the callback and read
\* only by the publisher task, so that no other task's behaviour depends on
\* it: the radio task's step for a decoded frame is the same with the flag
\* clear as with the flag set.
C20_SingleWriterSingleReader ==
    [][ /\ (s_mqtt_connected' # s_mqtt_connected) => CallbackStep
        /\ (LoraPubStep /\ s_mqtt_connected) =>
              g_mqtt_queue' =
                 xQueueSend(g_mqtt_queue, Tag(LoraMessage(pkt)), MQTT_QUEUE_DEPTH)
        /\ (LoraPubStep /\ ~s_mqtt_connected) =>
              g_mqtt_queue' =
                 xQueueSend(g_mqtt_queue, Tag(LoraMessage(pkt)), MQTT_QUEUE_DEPTH)
      ]_vars

\* C21 (as claimed): every enqueue on g_mqtt_queue, by the GPS task and by the
\* radio task alike, is made with a non-zero block time: a call that returns
\* with the message discarded has waited for room first, and a call that
\* finds room appends the message.
C21_EveryEnqueueWaits ==
    [][ /\ \A d \in dropped' \ dropped : d.wait_ms > 0
        /\ (gps_pc = "send" /\ gps_pc' = "poll"
               /\ Len(g_mqtt_queue) < MQTT_QUEUE_DEPTH) =>
              (g_mqtt_queue' = Append(g_mqtt_queue, Tag(gps_json)))
        /\ (LoraPubStep /\ s_mqtt_connected /\ Len(g_mqtt_queue) < MQTT_QUEUE_DEPTH) =>
              (g_mqtt_queue' = Append(g_mqtt_queue, Tag(LoraMessage(pkt))))
      ]_vars

\* C22: every MqttMessage built by gps_task or lora_task has a topic with a
\* NUL after at most 63 characters and a payload with a NUL after at most 383
\* characters (127 for the GPS task), whatever the length of the complete
\* encoding: a longer encoding is cut at the capacity, a shorter one is kept
\* whole, and no call writes more bytes than its buffer (topic, payload,
\* json) has.
C22_MessageWithinBuffers ==
    (call.fn \in {"gps_message", "lora_message"} /\ call.done) =>
        LET cap == IF call.fn = "gps_message" THEN JSON_SIZE - 1
                   ELSE PAYLOAD_SIZE - 1
        IN  /\ call.topic.term /\ call.topic.len <= TOPIC_SIZE - 1
            /\ call.payload.term /\ call.payload.len <= PAYLOAD_SIZE - 1
            /\ call.payload.len = IF call.n > cap THEN cap ELSE call.n
            /\ call.topic.len = IF call.fn = "gps_message" THEN 10 ELSE 11
            /\ call.topic.bytes <= TOPIC_SIZE
            /\ call.payload.bytes <= PAYLOAD_SIZE
            /\ call.json.bytes <= JSON_SIZE

\* C22 witness: a GPS encoding of 987 characters has been cut to 127, and (a
\* second state) a radio encoding of 1179 characters has been cut to 383
C22_Witness ==
    /\ call.done
    /\ \/ (call.fn = "gps_message" /\ call.n = 987 /\ call.payload.len = 127)
       \/ (call.fn = "lora_message" /\ call.n = 1179 /\ call.payload.len = 383)

\* C23: the publisher task leaves its wait only in a step that finds
\* EVT_WIFI_CONNECTED set, and only towards broker_connect; a connect request
\* is issued only from there, so never before the flag was seen set in the
\* same iteration; and while the task waits with the flag clear it does
\* nothing: it stays in the wait, no client is created, no connect request is
\* made, nothing is dequeued and nothing is published.
C23_NoConnectBeforeLinkReady ==
    [][ /\ (mqtt_pc = "wait_wifi" /\ mqtt_pc' # "wait_wifi") =>
              (net_events /\ mqtt_pc' = "connect")
        /\ (mqtt_pc' = "connect") => (mqtt_pc \in {"wait_wifi", "connect"})
        /\ (\/ (s_mqtt = "null" /\ s_mqtt' # "null")
            \/ (s_mqtt # "connecting" /\ s_mqtt' = "connecting")) =>
              (mqtt_pc = "connect")
        /\ (mqtt_pc = "wait_wifi" /\ ~net_events) =>
              /\ mqtt_pc' = "wait_wifi"
              /\ msg' = msg
              /\ published' = published
              /\ Len(g_mqtt_queue') >= Len(g_mqtt_queue)
      ]_vars

\* C23 witness: the flag has not been set, no client exists yet, and the task
\* is still waiting while the GPS task has filled the queue with its messages
C23_Witness ==
    /\ mqtt_pc = "wait_wifi"
    /\ ~net_events
    /\ s_mqtt = "null"
    /\ wifi_pc = "join"
    /\ Len(g_mqtt_queue) = MaxMsgs
    /\ published = <<>>

\* C24: g_gs_location_q changes only in a poll of the GPS task that holds a
\* fix, and then holds the parser's position; g_rocket_location_q changes only
\* in the radio task's step for a decoded frame, and then holds the frame's
\* position; a step of the servo task changes neither slot; and a slot that
\* holds a sample is never emptied: nobody receives from it, resets it or
\* deletes it.
C24_OneWriterPerSlot ==
    [][ /\ (g_gs_location_q' # g_gs_location_q) =>
              /\ gps_pc = "poll" /\ parser.fix /\ parser' = parser
              /\ g_gs_location_q' = <<GpsLocation(parser.coord)>>
              /\ lora_pc' = lora_pc /\ servo_pc' = servo_pc
        /\ (g_rocket_location_q' # g_rocket_location_q) =>
              /\ LoraLocStep
              /\ g_rocket_location_q' = <<LoraLocation(pkt.d)>>
              /\ gps_pc' = gps_pc /\ had_fix' = had_fix /\ servo_pc' = servo_pc
        /\ (servo_pc' # servo_pc) =>
              UNCHANGED <<g_gs_location_q, g_rocket_location_q>>
        /\ Len(g_gs_location_q') >= Len(g_gs_location_q)
        /\ Len(g_rocket_location_q') >= Len(g_rocket_location_q)
        /\ Len(g_gs_location_q') <= 1 /\ Len(g_rocket_location_q') <= 1
      ]_vars

\* C24 witness: both slots have been written by their writers, the servo task
\* has peeked both and driven the servos from them, and both samples are
\* still in their slots
C24_Witness ==
    /\ g_gs_location_q = wrote_gs /\ wrote_gs # <<>>
    /\ g_rocket_location_q = wrote_rkt /\ wrote_rkt # <<>>
    /\ have_gs /\ have_rkt
    /\ pwm # <<PULSE_CENTER, PULSE_CENTER>>
    /\ servo_pc = "peek_gs"

C26_HandshakeTimeoutRetries ==
    /\ [][ /\ (mqtt_pc = "grace" /\ mqtt_pc' # "grace" /\ ~s_mqtt_connected) =>
                 /\ mqtt_pc' = "delay_hs"
                 /\ g_log_queue' =
                       log_print(g_log_queue, Rec("mqtt_handshake_timeout"))
                 /\ UNCHANGED <<g_mqtt_queue, msg, published, seen_connected>>
           /\ (mqtt_pc' = "delay_hs") => (mqtt_pc \in {"grace", "delay_hs"})
           /\ (mqtt_pc = "delay_hs" /\ mqtt_pc' # "delay_hs") =>
                 /\ mqtt_pc' = "wait_wifi"
                 /\ UNCHANGED <<g_mqtt_queue, g_log_queue, msg, published, s_mqtt>>
         ]_vars
    /\ []((mqtt_pc \in {"grace", "delay_hs"}) =>
             ENABLED (MqttGrace \/ MqttRetryDelay))

\* C26 witness: the broker has refused the connection during the grace
\* period, the task has taken the timeout branch and is in its backoff, and
\* a message is waiting in the queue
C26_Witness ==
    /\ mqtt_pc = "delay_hs"
    /\ s_mqtt = "closed"
    /\ ~s_mqtt_connected
    /\ net_events
    /\ Len(g_mqtt_queue) = 1

\* C27 (as claimed): every iteration of the listening loop, whether it
\* decoded a frame, failed to read or decode one, or found no packet, has
\* called startReceive when it reaches its delay.
C27_RearmsEveryCycle ==
    (lora_pc = "poll" /\ rx.found \in {"packet", "idle"}) => rx.started

\* C27 (amended): startReceive is called once before the loop and at the end
\* of every iteration that found a packet available, whether the packet was
\* decoded, failed the frame check or could not be read; an iteration that
\* found no packet available does not call it; every iteration ends at the
\* delay at the bottom of the loop, from where the next poll starts.
C27_RearmsAfterEveryPacket ==
    /\ [](lora_pc = "poll" => (rx.started <=> rx.found \in {"none", "packet"}))
    /\ [][ /\ (lora_pc = "decode" /\ lora_pc' = "poll") =>
                 (/\ ~(pkt.read_ok /\ pkt.frame_ok)
                  /\ rx' = [found |-> "packet", started |-> TRUE])
           /\ (lora_pc = "loc" /\ lora_pc' # "loc") =>
                 (/\ lora_pc' = "poll"
                  /\ rx' = [found |-> "packet", started |-> TRUE])
           /\ (lora_pc = "poll" /\ rx'.found = "idle") =>
                 (lora_pc' = "poll" /\ ~rx'.started)
           /\ (lora_pc = "header" /\ lora_pc' = "poll") => rx'.started
         ]_vars

\* C27 witness: a frame has been decoded and the remote slot written, and
\* the iteration after it found no packet and did not call startReceive
C27_Witness ==
    /\ lora_pc = "poll"
    /\ rx = [found |-> "idle", started |-> FALSE]
    /\ g_rocket_location_q # <<>>
    /\ Len(g_log_queue) = LOG_QUEUE_DEPTH

\* C28 (as claimed): the line with the two probe bytes is followed by one
\* classification line, and the four named classes are assigned as
\* documented: healthy iff both reads are 0x12, sense line not connected iff
\* (0x00, 0xFF), shorted to ground iff (0x00, 0x00), in reset or unpowered iff
\* (0xFF, 0xFF).
C28_DiagClassesAsDocumented ==
    \A k \in 1..(Len(g_log_queue) - 1) :
        (g_log_queue[k].kind = "lora_diag_raw") =>
            LET a == g_log_queue[k].no_pull
                b == g_log_queue[k].pullup
                c == g_log_queue[k + 1].kind
            IN  /\ c \in {"lora_diag_ok", "lora_diag_miso_not_connected",
                          "lora_diag_miso_shorted", "lora_diag_reset_or_unpowered",
                          "lora_diag_unexpected"}
                /\ (c = "lora_diag_ok") <=> (a = 18 /\ b = 18)
                /\ (c = "lora_diag_miso_not_connected") <=> (a = 0 /\ b = 255)
                /\ (c = "lora_diag_miso_shorted") <=> (a = 0 /\ b = 0)
                /\ (c = "lora_diag_reset_or_unpowered") <=> (a = 255 /\ b = 255)

\* C29: with room in the log queue (the first radio record stands at position
\* b + 1), the radio task's records are in bring-up order: the line with the
\* two probe bytes and its classification line come first; begin is attempted
\* after every classification, and its outcome is the third record; the task
\* polls only after 'ready', and is parked exactly after 'init failed'; the
\* CSV header is logged once, right after 'ready', and every CSV row stands
\* behind it; and a CSV row is logged by exactly the decode steps of packets
\* that were read and passed the frame check, one row each.
C29_BringUpOrder ==
    /\ [](LET b == LOG_QUEUE_DEPTH - 6 IN
            /\ (lora_pc # "diag") =>
                  /\ Len(g_log_queue) >= b + 2
                  /\ g_log_queue[b + 1].kind = "lora_diag_raw"
                  /\ g_log_queue[b + 2].kind =
                        diag_spi(g_log_queue[b + 1].no_pull, g_log_queue[b + 1].pullup)
            /\ (lora_pc = "diag") => (Len(g_log_queue) = b)
            /\ (lora_pc = "begin") => (Len(g_log_queue) = b + 2 /\ ENABLED LoraBegin)
            /\ (lora_pc \in {"header", "poll", "decode", "pub", "loc"}) =>
                  (Len(g_log_queue) >= b + 3
                      /\ g_log_queue[b + 3].kind = "lora_ready")
            /\ (lora_pc = "halted") <=>
                  (Len(g_log_queue) >= b + 3
                      /\ g_log_queue[b + 3].kind = "lora_init_failed")
            /\ (lora_pc \in {"poll", "decode", "pub", "loc"}) =>
                  (Len(g_log_queue) >= b + 4
                      /\ g_log_queue[b + 4].kind = "lora_csv_header")
            /\ \A k \in 1..Len(g_log_queue) :
                  /\ (g_log_queue[k].kind = "lora_csv_header") => (k = b + 4)
                  /\ (g_log_queue[k].kind = "lora_csv_row") => (k > b + 4))
    /\ [][LET Rows(q) == Len(SelectSeq(q, LAMBDA r : r.kind = "lora_csv_row")) IN
           /\ (lora_pc = "diag" /\ lora_pc' # "diag") => (lora_pc' = "begin")
           /\ (lora_pc = "decode" /\ lora_pc' # "decode"
                 /\ pkt.read_ok /\ pkt.frame_ok) =>
                 (g_log_queue' =
                     log_print(g_log_queue,
                               [kind |-> "lora_csv_row", n |-> 0, d |-> pkt.d,
                                rssi |-> pkt.rssi, snr |-> pkt.snr]))
           /\ (Rows(g_log_queue') # Rows(g_log_queue)) =>
                 (/\ lora_pc = "decode" /\ pkt.read_ok /\ pkt.frame_ok
                  /\ Rows(g_log_queue') = Rows(g_log_queue) + 1)
         ]_vars

\* C29 witness: the probes found the sense line shorted, begin succeeded all
\* the same, and the log holds the header followed by the rows of two
\* different frames
C29_Witness ==
    /\ lora_pc = "poll"
    /\ Len(g_log_queue) = LOG_QUEUE_DEPTH
    /\ g_log_queue[LOG_QUEUE_DEPTH - 4].kind = "lora_diag_miso_shorted"
    /\ g_log_queue[LOG_QUEUE_DEPTH - 2].kind = "lora_csv_header"
    /\ g_log_queue[LOG_QUEUE_DEPTH - 1].kind = "lora_csv_row"
    /\ g_log_queue[LOG_QUEUE_DEPTH].kind = "lora_csv_row"
    /\ g_log_queue[LOG_QUEUE_DEPTH - 1].d # g_log_queue[LOG_QUEUE_DEPTH].d

\* C30: a poll of the GPS task that finds a fix leaves g_gs_location_q
\* holding the parser's current (latitude, longitude, altitude), on the polls
\* that go on to publish and on the polls the rate limiter holds back alike;
\* a poll that finds no fix leaves the slot as it is; and a poll is always
\* able to run.
C30_SlotFreshOnEveryFixPoll ==
    /\ [][ /\ (GpsPollStep /\ parser.fix) =>
                 (g_gs_location_q' = <<GpsLocation(parser.coord)>>)
           /\ (GpsPollStep /\ ~parser.fix) => (g_gs_location_q' = g_gs_location_q)
           /\ (g_gs_location_q' # g_gs_location_q) => (gps_pc = "poll" /\ parser.fix)
         ]_vars
    /\ []((gps_pc = "poll" /\ parser.fix) =>
             ENABLED (GpsPoll /\ g_gs_location_q' = <<GpsLocation(parser.coord)>>))

\* C30 witness: a poll has published the position with latitude 37, and a
\* later poll, held back by the rate limiter (no tick has gone by since),
\* has overwritten the slot with the position with latitude 38
C30_Witness ==
    /\ gps_pc = "poll"
    /\ Len(accepted) = 1
    /\ accepted[1].payload.lat = 37
    /\ since_pub = 0
    /\ g_gs_location_q = <<[lat |-> 38, lon |-> -81, alt_m |-> 610]>>
    /\ had_fix

\* C31: on every control tick the servo task calls pwm_set_gpio_level exactly
\* once for each of the two channels, azimuth then zenith, whether or not the
\* level changes, no other step writes a level, and every level written lies
\* in [PULSE_MIN, PULSE_MAX], whatever the two samples and the angles computed
\* from them.
C31_TwoWritesInPulseRange ==
    [][ /\ ServoDriveStep =>
              /\ Len(pwm_calls') = 2
              /\ pwm_calls'[1].ch = "azimuth" /\ pwm_calls'[2].ch = "zenith"
              /\ \A ch \in 1..2 : pwm'[ch] \in PULSE_MIN..PULSE_MAX
        /\ (pwm' # pwm \/ pwm_calls' # pwm_calls) => ServoDriveStep
      ]_vars

\* C32: EVT_WIFI_CONNECTED is written only by steps of the wifi task; it is
\* set only by the step in which a connect attempt returns success; the step
\* in which the task observes the link down clears it, so that it is clear
\* whenever the task is before or inside a connect attempt and set while the
\* task monitors the link; and a publisher waiting on the flag can go on
\* exactly when the flag is set.
C32_LinkFlagWrittenByWifiOnly ==
    /\ [](/\ (wifi_pc \in {"init", "connect", "join", "deleted"}) => ~net_events
          /\ (wifi_pc = "monitor") => net_events
          /\ (mqtt_pc = "wait_wifi") => (net_events <=> ENABLED MqttWaitBits))
    /\ [][ /\ (net_events' # net_events) => (wifi_pc' # wifi_pc)
           /\ (~net_events /\ net_events') =>
                 (wifi_pc = "join" /\ wifi_pc' = "monitor")
           /\ (wifi_pc = "monitor" /\ wifi_pc' # "monitor") =>
                 (~net_events' /\ wifi_pc' = "connect")
         ]_vars

\* C32 witness: the publisher was released by the flag and has gone on to its
\* connect request; the link has dropped since, the flag is clear and the wifi
\* task is inside its next connect attempt
C32_Witness ==
    /\ wifi_pc = "join"
    /\ ~net_events
    /\ mqtt_pc = "connect"

\* C33: g_mqtt_queue never holds more than MQTT_QUEUE_DEPTH messages; a
\* producer's xQueueSend that returns with the queue still full discards the
\* new message and leaves the queued messages and their order as they were,
\* and the producer goes on to the next statement of its loop; no step other
\* than the publisher's receive takes a message out of the queue.
C33_FullQueueDropsNewest ==
    /\ [](Len(g_mqtt_queue) <= MQTT_QUEUE_DEPTH)
    /\ [][ /\ (gps_pc = "send" /\ gps_pc' # gps_pc
                  /\ Len(g_mqtt_queue) = MQTT_QUEUE_DEPTH) =>
                 /\ g_mqtt_queue' = g_mqtt_queue
                 /\ accepted' = accepted
                 /\ [topic |-> gps_json.topic, wait_ms |-> GPS_SEND_WAIT_MS]
                        \in dropped'
                 /\ gps_pc' = "poll"
           /\ (LoraPubStep /\ s_mqtt_connected
                  /\ Len(g_mqtt_queue) = MQTT_QUEUE_DEPTH) =>
                 /\ g_mqtt_queue' = g_mqtt_queue
                 /\ accepted' = accepted
                 /\ [topic |-> LoraMessage(pkt).topic,
                     wait_ms |-> LORA_SEND_WAIT_MS] \in dropped'
                 /\ lora_pc' = "loc"
           /\ (Len(g_mqtt_queue') < Len(g_mqtt_queue)) =>
                 (mqtt_pc = "recv" /\ g_mqtt_queue' = Tail(g_mqtt_queue))
           /\ (Len(g_mqtt_queue') >= Len(g_mqtt_queue)) =>
                 (\A k \in 1..Len(g_mqtt_queue) : g_mqtt_queue'[k] = g_mqtt_queue[k])
         ]_vars

\* C33 witness: both producers have had a message discarded, and after the
\* last of these calls the queue still holds the eight messages it held before
C33_Witness ==
    /\ {d.topic : d \in dropped} = {"rocket/gps", "rocket/lora"}
    /\ g_mqtt_queue = Queued(MQTT_QUEUE_DEPTH)
    /\ gps_pc = "poll"
    /\ lora_pc = "loc"

\* the step in which gps_task handles the byte it has read
GpsEchoStep == gps_pc = "byte" /\ gps_pc' = "poll"

\* C34 (as claimed): nmea_len stays in 0 .. sizeof( nmea_buf ) - 1 after
\* every byte; a byte that finds the buffer full empties it, whatever the byte
\* is; a line feed logs the buffered text if there is any and empties the
\* buffer; and the task can always read and handle the next byte.
C34_AnyByteResetsFullBuffer ==
    /\ [](/\ nmea_len \in 0..(NMEA_BUF_SIZE - 1)
          /\ (gps_pc = "byte") => ENABLED GpsEcho
          /\ (gps_pc = "poll") => ENABLED GpsGetc)
    /\ [][ GpsEchoStep =>
             /\ (nmea_len = NMEA_BUF_SIZE - 1) => (nmea_len' = 0)
             /\ (uart_rx = 10) =>
                   /\ nmea_len' = 0
                   /\ g_log_queue' = IF nmea_len > 0
                                     THEN log_print(g_log_queue, Rec("gps_raw"))
                                     ELSE g_log_queue
             /\ (uart_rx # 10) => (g_log_queue' = g_log_queue)
         ]_vars

\* C34 (amended): as above, but a NUL byte is skipped and leaves the index
\* where it is, also when the buffer is full; every other byte that finds the
\* buffer full empties it; below the limit a byte other than NUL, line feed
\* and carriage return adds one to the index and a carriage return leaves it.
C34_NonNulByteResetsFullBuffer ==
    /\ [](/\ nmea_len \in 0..(NMEA_BUF_SIZE - 1)
          /\ (gps_pc = "byte") => ENABLED GpsEcho
          /\ (gps_pc = "poll") => ENABLED GpsGetc)
    /\ [][ GpsEchoStep =>
             /\ (uart_rx = 0) => (nmea_len' = nmea_len)
             /\ (nmea_len = NMEA_BUF_SIZE - 1 /\ uart_rx # 0) => (nmea_len' = 0)
             /\ (nmea_len < NMEA_BUF_SIZE - 1 /\ uart_rx \notin {0, 10, 13}) =>
                   (nmea_len' = nmea_len + 1)
             /\ (nmea_len < NMEA_BUF_SIZE - 1 /\ uart_rx = 13) =>
                   (nmea_len' = nmea_len)
             /\ (uart_rx = 10) =>
                   /\ nmea_len' = 0
                   /\ g_log_queue' = IF nmea_len > 0
                                     THEN log_print(g_log_queue, Rec("gps_raw"))
                                     ELSE g_log_queue
             /\ (uart_rx # 10) => (g_log_queue' = g_log_queue)
         ]_vars

\* C34 witness: the buffer is full after 127 stored bytes, a further
\* character has been read, and handling it empties the buffer
C34_Witness ==
    /\ nmea_len = NMEA_BUF_SIZE - 1
    /\ gps_pc = "byte"
    /\ uart_rx = 36
    /\ ENABLED (GpsEcho /\ nmea_len' = 0)

\* C35: the console task is the only consumer of g_log_queue and takes the
\* records from its head, so in the order in which they were accepted; a
\* record is passed to printf iff s_log_enabled is true when it is dequeued,
\* and a muted record is dequeued and discarded all the same; with the
\* console task running whenever it can, every accepted record is eventually
\* dequeued and a full queue does not stay full, muted or not.
C35_EveryRecordDequeuedInOrder ==
    /\ [][ /\ (Len(g_log_queue') < Len(g_log_queue)) =>
                 /\ usb_pc \in {"wait", "drain"} /\ usb_pc' = "drain"
                 /\ g_log_queue' = Tail(g_log_queue)
                 /\ log_out' = [rec |-> Head(g_log_queue), shown |-> s_log_enabled]
                 /\ log_out'.rec.n > log_out.rec.n
           /\ (log_out' # log_out) => (Len(g_log_queue') < Len(g_log_queue))
         ]_vars
    /\ \A n \in 1..MaxLogCalls :
          (\E k \in 1..Len(g_log_queue) : g_log_queue[k].n = n)
             ~> (log_out.rec.n = n)
    /\ (Len(g_log_queue) = LOG_QUEUE_DEPTH /\ ~s_log_enabled)
          ~> (Len(g_log_queue) < LOG_QUEUE_DEPTH)

\* C35 witness: the output is muted, the queue was full, and the console task
\* has dequeued and discarded its first two records
C35_Witness ==
    /\ ~s_log_enabled
    /\ log_out = [rec |-> CallRec(2), shown |-> FALSE]
    /\ Len(g_log_queue) = LOG_QUEUE_DEPTH - 2
    /\ log_calls = LOG_QUEUE_DEPTH

\* C36: if the callback sets s_mqtt_connected only after the task has taken
\* the handshake-timeout branch (the flag is true while the task is in the
\* 3 s delay of that branch) and the flag stays true from then on, the task
\* eventually enters the body of its drain loop and every message that was
\* waiting in the queue is eventually handed to mqtt_publish; a connect
\* request on a client that is already connected is refused.
C36_LateAcceptStillDrains ==
    /\ []((mqtt_pc = "delay_hs" /\ []s_mqtt_connected) => <>(mqtt_pc = "recv"))
    /\ \A i \in 1..MaxMsgs :
          []((mqtt_pc = "delay_hs" /\ i \in waiting /\ []s_mqtt_connected)
                => <>Delivered(i))

\* C37: every call of broker_connect is made in a state in which
\* s_mqtt_connected is false, whenever the callback runs between the steps
\* of the task.
C37_ConnectOnlyWhileFlagClear ==
    [][ (mqtt_pc = "connect" /\ mqtt_pc' # mqtt_pc) => ~s_mqtt_connected ]_vars

\* C38: have_gs and have_rkt are latched and the two slots, once written, are
\* never empty again; so from the tick on which the servo task has observed
\* both samples, every tick passes the computed counts to both channels and
\* never PULSE_CENTER, each peek returns the value last written to its slot,
\* and this is so also when the GPS has lost its fix and when no frame
\* arrives any more.
C38_NoCentreHoldOnceBothSeen ==
    [][ /\ (have_gs => have_gs') /\ (have_rkt => have_rkt')
        /\ (g_gs_location_q # <<>>) => (g_gs_location_q' # <<>>)
        /\ (g_rocket_location_q # <<>>) => (g_rocket_location_q' # <<>>)
        /\ (ServoDriveStep /\ have_gs /\ have_rkt) =>
              /\ pwm_calls'[1] = [ch |-> "azimuth", arg |-> "az_counts"]
              /\ pwm_calls'[2] = [ch |-> "zenith", arg |-> "el_counts"]
        /\ (PeekGsStep /\ have_gs /\ have_rkt) => (gs' = wrote_gs[1])
        /\ (PeekRktStep /\ have_gs /\ have_rkt) => (rkt' = wrote_rkt[1])
      ]_vars

\* C38 witness: the GPS has lost its fix (the loss has been logged or
\* dropped) after the servo task observed both samples; the last tick passed
\* computed counts, and the tick under way has peeked the stale local sample
\* and is about to drive
C38_Witness ==
    /\ servo_pc = "drive"
    /\ have_gs /\ have_rkt
    /\ ~parser.fix /\ ~had_fix
    /\ gs = wrote_gs[1]
    /\ pwm_calls # <<>>
    /\ pwm_calls[1].arg = "az_counts"

\* C39: the lwIP lock is held by wifi_task only between lines 34-36 and 45-47
\* and by mqtt_task only between lines 37-41 and 84-92, so at every queue
\* receive, event wait, log_print and delay of the two tasks the lock is free
\* of the acting task; no step a task makes under its own hold of the lock
\* touches the log queue, the outbound queue or the event bits; the holder can always go on to release,
\* and every hold of the lock ends, so a task waiting in
\* cyw43_arch_lwip_begin is not blocked forever.
C39_LwipLockReleasedBeforeBlocking ==
    /\ [](/\ lwip_owner = "wifi" => wifi_pc \in {"ip", "link"}
          /\ lwip_owner = "mqtt" => mqtt_pc \in {"connect_locked", "publish_locked"}
          /\ wifi_pc \in {"ip", "link"} => lwip_owner = "wifi"
          /\ mqtt_pc \in {"connect_locked", "publish_locked"} => lwip_owner = "mqtt"
          /\ lwip_owner = "wifi" => ENABLED WifiLwipEnd
          /\ lwip_owner = "mqtt" => ENABLED (MqttConnectEnd \/ MqttPublishEnd))
    /\ [][(wifi_pc' # wifi_pc /\ (g_log_queue' # g_log_queue \/ dropped' # dropped
                                  \/ net_events' # net_events))
          => (lwip_owner # "wifi" /\ lwip_owner' # "wifi")]_vars
    /\ [][(mqtt_pc' # mqtt_pc /\ (g_log_queue' # g_log_queue \/ dropped' # dropped
                                  \/ g_mqtt_queue' # g_mqtt_queue))
          => (lwip_owner # "mqtt" /\ lwip_owner' # "mqtt")]_vars
    /\ ((lwip_owner # "none") ~> (lwip_owner = "none"))

\* mqtt_task stands in cyw43_arch_lwip_begin before mqtt_publish with a
\* message taken from the queue while wifi_task reads the link state under
\* the lock
C39_Witness ==
    /\ lwip_owner = "wifi"
    /\ wifi_pc = "link"
    /\ mqtt_pc = "publish"
    /\ msg # NoMsg

====
